---- MODULE Spec2Model ----
(***************************************************************************)
(* Model of the orchestration layer of dwh-orchestration:                  *)
(*   - execute_job_flow          (orchestration/main.py)                   *)
(*   - PipelineExecutor          (src/ingestion/pipelines/executor.py)     *)
(*   - SecretsResolver           (src/ingestion/config/secrets_resolver.py)*)
(*   - ConfigValidator           (src/ingestion/config/validator.py)       *)
(*   - ConfigLoader              (src/ingestion/config/loader.py)          *)
(*   - all_pipelines_flow        (orchestration/flows.py)                  *)
(* Each component has its own specification (SpecJob and SpecJobFair,      *)
(* SpecExecutor, SpecSecrets, SpecResolve for resolve_dict, SpecValidator, *)
(* SpecLoader for the bulk loads, SpecLoadDestination, SpecFlow); the      *)
(* variables of the other components stay idle.                            *)
(***************************************************************************)
EXTENDS Integers, Sequences, FiniteSets, TLC

VARIABLES
    \* ---- execute_job_flow ----
    job_config,   \* the JobConfig argument
    pc,           \* position of the flow: "idle", "sequential", "seq_call",
                  \* "parallel", "par_wait", "dag", "dag_wait", "returned", "raised"
    results,      \* results list: indices of the steps whose result was appended
    executed,     \* dag mode: set of names of successfully collected steps
    pending,      \* dag mode: list of step indices still pending
    futures,      \* parallel/dag mode: submitted, not yet collected (step indices)
    pos,          \* sequential/parallel mode: position of the for loop
    task,         \* per step: "none", "running", "ok", "failed" (the scheduler's task run)
    started,      \* history: step indices in the order they were dispatched
    collected,    \* history: step indices whose future.result() was awaited
    error         \* "none", "task" (re-raised task failure), "cycle" (ValueError)

jobVars == <<job_config, pc, results, executed, pending, futures, pos, task,
             started, collected, error>>

\* ---- PipelineExecutor ----
VARIABLES
    ex_pc,        \* "idle", "loop" (retry loop), "returned", "raised"
    retry_call,   \* arguments of the execute_pipeline_with_retry call and the
                  \* execution section of the pipeline config it loaded, or None
    ep_call,      \* arguments of the last direct execute_pipeline call, or None
    ep_result,    \* what that call produced, or None
    max_retries,  \* local of execute_pipeline_with_retry after line 183
    retry_delay,  \* local of execute_pipeline_with_retry after line 184
    attempt,      \* loop variable of the retry loop
    attempts,     \* history: the result of every execute_pipeline call of the loop
    sleeps,       \* history: every time.sleep, as [before |-> attempt, seconds |-> s]
    last_result,  \* local last_result
    ret           \* the value execute_pipeline_with_retry returned, or None

execVars == <<ex_pc, retry_call, ep_call, ep_result, max_retries, retry_delay, attempt, attempts,
              sleeps, last_result, ret>>

\* ---- SecretsResolver ----
VARIABLES
    secrets_config,  \* SecretsConfig: secrets (key -> SecretMapping) and validation
    environ,         \* the process environment: key -> None or Some(value)
    cache,           \* _cache: key -> None (not cached) or Some(value)
    calls,           \* history: the last two get_secret calls made in a row by the
                     \* caller since the cache was cleared
    validated        \* history: the validate_required_secrets call that was the
                     \* last operation on the resolver, or None

secVars == <<secrets_config, environ, cache, calls, validated>>

\* ---- SecretsResolver.resolve_dict ----
VARIABLES
    data,            \* the dictionary passed to resolve_dict
    resolved,        \* the dictionary resolve_dict returned, or None
    rs_pc            \* "idle", "ready", "returned", "raised"

resVars == <<data, resolved, rs_pc>>

\* ---- ConfigValidator ----
VARIABLES
    val_call,        \* the validator call: the function and its arguments
    val_result       \* what the call produced, or None while it has not run

valVars == <<val_call, val_result>>

\* ---- ConfigLoader.load_all_sources / load_all_destinations / load_all_pipelines ----
VARIABLES
    ld_call,         \* the bulk operation: "sources", "destinations", "pipelines" ("idle": none)
    ld_files,        \* the files of the directory in the order glob yields them
    ld_pos,          \* position of the for loop
    ld_result,       \* the dict being built: entries name -> file the config came from
    ld_pc            \* "idle", "nodir", "loop", "returned", "raised"

loadVars == <<ld_call, ld_files, ld_pos, ld_result, ld_pc>>

\* ---- all_pipelines_flow (orchestration/flows.py) ----
VARIABLES
    fl_names,        \* pipeline_names, as requested or discovered
    fl_futures,      \* the list futures: the submitted task runs, each with its state
    fl_pos,          \* position of the collecting loop
    fl_waits,        \* the positions of the futures whose result() was awaited, in order
    fl_results,      \* the dict results
    fl_pc            \* "idle", "submit", "collect", "returned", "raised"

flowVars == <<fl_names, fl_futures, fl_pos, fl_waits, fl_results, fl_pc>>

\* ---- ConfigLoader.load_destination_config ----
VARIABLES
    dst_data,        \* the mapping under "destination" of the YAML file
    dst_resolver,    \* self.secrets_resolver is set: secrets_mapping.yaml exists
    dst_config,      \* the DestinationConfig the loader returned (None: none)
    dst_errors,      \* what validate_destination_config said of it (None: not called)
    dst_pc           \* "idle", "ready", "loaded", "raised", "validated"

dstVars == <<dst_data, dst_resolver, dst_config, dst_errors, dst_pc>>

\* the components added after the validator
restVars == <<loadVars, flowVars, dstVars>>

vars == <<jobVars, execVars, secVars, resVars, valVars, restVars>>

\* what an action of one component leaves alone
notJob == <<execVars, secVars, resVars, valVars, restVars>>
notExec == <<jobVars, secVars, resVars, valVars, restVars>>
notSec == <<jobVars, execVars, resVars, valVars, restVars>>
notVal == <<jobVars, execVars, secVars, resVars, restVars>>
notLoad == <<jobVars, execVars, secVars, resVars, valVars, flowVars, dstVars>>
notFlow == <<jobVars, execVars, secVars, resVars, valVars, loadVars, dstVars>>

\* Optional values: None is the empty tuple, a present value x is <<x>>
None == <<>>
Some(x) == <<x>>

----------------------------------------------------------------------------
\* Bounds of the job model
NumSteps == 2        \* pipelines per job
MaxOrder == 1        \* order field ranges over 0..MaxOrder

AllNames == <<"a", "b", "c", "d", "e">>
MissingName == "zz"  \* a pipeline name that is no step of the job

StepIds == 1..NumSteps
StepNames == {AllNames[i] : i \in StepIds}
DepNames == StepNames \cup {MissingName}

\* JobPipelineConfig: name, order, depends_on, enabled, continue_on_failure
JobPipelineConfig(n, o, d, e, c) ==
    [name |-> n, order |-> o, depends_on |-> d, enabled |-> e,
     continue_on_failure |-> c]

\* JobExecutionConfig: mode and the job-level continue_on_failure
JobExecutionConfig(m, c) == [mode |-> m, continue_on_failure |-> c]

\* The jobs the model runs. Fields a mode never reads keep their defaults.
SeqChoices == [order : 0..MaxOrder, depends_on : {{}}, enabled : BOOLEAN,
               continue_on_failure : BOOLEAN]
ParChoices == [order : {0}, depends_on : {{}}, enabled : BOOLEAN,
               continue_on_failure : {FALSE}]
DagChoices == [order : {0}, depends_on : SUBSET DepNames, enabled : BOOLEAN,
               continue_on_failure : BOOLEAN]

MkPipelines(c) ==
    [i \in StepIds |-> JobPipelineConfig(AllNames[i], c[i].order, c[i].depends_on,
                                         c[i].enabled, c[i].continue_on_failure)]

JobConfig(c, m, b) == [pipelines |-> MkPipelines(c), execution |-> JobExecutionConfig(m, b)]

----------------------------------------------------------------------------
\* Helpers on sequences
Range(s) == {s[i] : i \in 1..Len(s)}

\* a remove that leaves the list as it is
RemoveFirst_Keep(s, x) == s

\* list.remove(x): drop the first element equal to x
RemoveFirst(s, x) ==
    LET k == CHOOSE i \in 1..Len(s) : s[i] = x /\ \A j \in 1..(i-1) : s[j] # x
    IN  SubSeq(s, 1, k-1) \o SubSeq(s, k+1, Len(s))

\* [p for p in s if keep(p)], list order kept
RECURSIVE FilterSeq(_, _)
FilterSeq(s, keep) ==
    IF s = <<>> THEN <<>>
    ELSE (IF Head(s) \in keep THEN <<Head(s)>> ELSE <<>>) \o FilterSeq(Tail(s), keep)

Pipelines == job_config.pipelines
Mode == job_config.execution.mode

\* a sort that leaves the list in declaration order (the key is ignored)
SortedByOrder_ListOrder(ps) == [k \in 1..Len(ps) |-> k]

\* sorted(job_config.pipelines, key=lambda p: p.order): stable, ascending
SortRank(ps, i) ==
    1 + Cardinality({j \in DOMAIN ps :
            ps[j].order < ps[i].order \/ (ps[j].order = ps[i].order /\ j < i)})
SortedByOrder(ps) ==
    [k \in 1..Len(ps) |-> CHOOSE i \in DOMAIN ps : SortRank(ps, i) = k]

\* any() in place of all(): one executed dependency is enough
IsReady_Any(p, ex) ==
    p.enabled /\ (p.depends_on = {} \/ \E dep \in p.depends_on : dep \in ex)

\* p.enabled and all(dep in executed for dep in p.depends_on)
IsReady(p, ex) == p.enabled /\ \A dep \in p.depends_on : dep \in ex

\* ready = [p for p in pending if ...]
Ready(pend, ex) == FilterSeq(pend, {i \in StepIds : IsReady(Pipelines[i], ex)})

----------------------------------------------------------------------------
\* The scheduler's task run of a submitted or called execute_pipeline_task ends
\* with a result or with an exception; which one is decided outside the flow.
TaskComplete(i, ok) ==
    /\ task[i] = "running"
    /\ task' = [task EXCEPT ![i] = IF ok THEN "ok" ELSE "failed"]
    /\ UNCHANGED <<notJob, job_config, pc, results, executed, pending, futures, pos,
                   started, collected, error>>

\* ---- sequential mode ----
SeqSkipDisabled ==
    /\ pc = "sequential"
    /\ pos <= NumSteps
    /\ ~Pipelines[SortedByOrder(Pipelines)[pos]].enabled
    /\ pos' = pos + 1
    /\ UNCHANGED <<notJob, job_config, pc, results, executed, pending, futures, task,
                   started, collected, error>>

SeqCall ==
    /\ pc = "sequential"
    /\ pos <= NumSteps
    /\ LET i == SortedByOrder(Pipelines)[pos] IN
        /\ Pipelines[i].enabled
        /\ task' = [task EXCEPT ![i] = "running"]
        /\ started' = Append(started, i)
    /\ pc' = "seq_call"
    /\ UNCHANGED <<notJob, job_config, results, executed, pending, futures, pos,
                   collected, error>>

\* an except clause that swallows every failure
SeqOnFailure_Swallow(p) == "continue"

\* what the except clause of the sequential loop does with a failed step
SeqOnFailure(p) == IF ~p.continue_on_failure THEN "raise" ELSE "continue"

SeqResult ==
    /\ pc = "seq_call"
    /\ LET i == SortedByOrder(Pipelines)[pos] IN
        /\ task[i] \in {"ok", "failed"}
        /\ collected' = Append(collected, i)
        /\ IF task[i] = "ok"
           THEN /\ results' = Append(results, i)
                /\ pc' = "sequential"
                /\ pos' = pos + 1
                /\ error' = error
           ELSE IF SeqOnFailure(Pipelines[i]) = "raise"
                THEN /\ pc' = "raised"
                     /\ error' = "task"
                     /\ UNCHANGED <<results, pos>>
                ELSE /\ pc' = "sequential"
                     /\ pos' = pos + 1
                     /\ UNCHANGED <<results, error>>
    /\ UNCHANGED <<notJob, job_config, executed, pending, futures, task, started>>

SeqDone ==
    /\ pc = "sequential"
    /\ pos > NumSteps
    /\ pc' = "returned"
    /\ UNCHANGED <<notJob, job_config, results, executed, pending, futures, pos, task,
                   started, collected, error>>

\* ---- parallel mode ----
ParSkipDisabled ==
    /\ pc = "parallel"
    /\ pos <= NumSteps
    /\ ~Pipelines[pos].enabled
    /\ pos' = pos + 1
    /\ UNCHANGED <<notJob, job_config, pc, results, executed, pending, futures, task,
                   started, collected, error>>

ParSubmit ==
    /\ pc = "parallel"
    /\ pos <= NumSteps
    /\ Pipelines[pos].enabled
    /\ task' = [task EXCEPT ![pos] = "running"]
    /\ started' = Append(started, pos)
    /\ futures' = Append(futures, pos)
    /\ pos' = pos + 1
    /\ UNCHANGED <<notJob, job_config, pc, results, executed, pending, collected, error>>

ParSubmitted ==
    /\ pc = "parallel"
    /\ pos > NumSteps
    /\ pc' = "par_wait"
    /\ UNCHANGED <<notJob, job_config, results, executed, pending, futures, pos, task,
                   started, collected, error>>

\* what the except clause of the parallel wait loop does with a failed future
ParOnFailure(ex) == IF ~ex.continue_on_failure THEN "raise" ELSE "continue"

ParCollect ==
    /\ pc = "par_wait"
    /\ futures # <<>>
    /\ LET i == Head(futures) IN
        /\ task[i] \in {"ok", "failed"}
        /\ collected' = Append(collected, i)
        /\ IF task[i] = "ok"
           THEN /\ results' = Append(results, i)
                /\ futures' = Tail(futures)
                /\ UNCHANGED <<pc, error>>
           ELSE IF ParOnFailure(job_config.execution) = "raise"
                THEN /\ pc' = "raised"
                     /\ error' = "task"
                     /\ UNCHANGED <<results, futures>>
                ELSE /\ futures' = Tail(futures)
                     /\ UNCHANGED <<results, pc, error>>
    /\ UNCHANGED <<notJob, job_config, executed, pending, pos, task, started>>

ParDone ==
    /\ pc = "par_wait"
    /\ futures = <<>>
    /\ pc' = "returned"
    /\ UNCHANGED <<notJob, job_config, results, executed, pending, futures, pos, task,
                   started, collected, error>>

\* ---- dag mode ----
DagNoneReady ==
    /\ pc = "dag"
    /\ pending # <<>>
    /\ Ready(pending, executed) = <<>>
    /\ pc' = "raised"
    /\ error' = "cycle"
    /\ UNCHANGED <<notJob, job_config, results, executed, pending, futures, pos, task,
                   started, collected>>

DagSubmitReady ==
    /\ pc = "dag"
    /\ pending # <<>>
    /\ LET ready == Ready(pending, executed) IN
        /\ ready # <<>>
        /\ task' = [i \in StepIds |-> IF i \in Range(ready) THEN "running" ELSE task[i]]
        /\ started' = started \o ready
        /\ futures' = ready
    /\ pc' = "dag_wait"
    /\ UNCHANGED <<notJob, job_config, results, executed, pending, pos, collected, error>>

\* what the except clause of the dag wait loop does with a failed future
DagOnFailure(p) == IF ~p.continue_on_failure THEN "raise" ELSE "continue"

DagCollect ==
    /\ pc = "dag_wait"
    /\ futures # <<>>
    /\ LET i == Head(futures) IN
        /\ task[i] \in {"ok", "failed"}
        /\ collected' = Append(collected, i)
        /\ pending' = RemoveFirst(pending, i)          \* finally: pending.remove
        /\ IF task[i] = "ok"
           THEN /\ results' = Append(results, i)
                /\ executed' = executed \cup {Pipelines[i].name}
                /\ futures' = Tail(futures)
                /\ pc' = IF Tail(futures) = <<>> THEN "dag" ELSE "dag_wait"
                /\ error' = error
           ELSE IF DagOnFailure(Pipelines[i]) = "raise"
                THEN /\ pc' = "raised"
                     /\ error' = "task"
                     /\ UNCHANGED <<results, executed, futures>>
                ELSE /\ futures' = Tail(futures)
                     /\ pc' = IF Tail(futures) = <<>> THEN "dag" ELSE "dag_wait"
                     /\ UNCHANGED <<results, executed, error>>
    /\ UNCHANGED <<notJob, job_config, pos, task, started>>

DagDone ==
    /\ pc = "dag"
    /\ pending = <<>>
    /\ pc' = "returned"
    /\ UNCHANGED <<notJob, job_config, results, executed, pending, futures, pos, task,
                   started, collected, error>>

\* a status that tells of the failures the job tolerated
ReturnValue_StatusOfTasks ==
    [status |-> IF \E i \in StepIds : task[i] = "failed" THEN "partial" ELSE "success",
     results |-> results]

\* return {"status": "success", "job": job_config.name, "results": results}
ReturnValue == [status |-> "success", results |-> results]

----------------------------------------------------------------------------
\* PipelineExecutor (src/ingestion/pipelines/executor.py)

\* Bounds of the executor model
MaxRetries == 2      \* retries (argument and config) range over 0..MaxRetries
MaxDelay == 1        \* retry_delay (argument and config) ranges over 0..MaxDelay

OptRetries == {None} \cup {Some(n) : n \in 0..MaxRetries}
OptDelays == {None} \cup {Some(n) : n \in 0..MaxDelay}

\* The steps inside the try block of execute_pipeline, in program order.  A call
\* is given the set of steps that throw when they are reached.
StageOrder == <<"load_pipeline_config", "load_source_config", "create_pipeline",
                "create_source", "run", "extract_metrics">>
Stages == Range(StageOrder)

\* what may go wrong in an attempt of the retry loop: the source config cannot
\* be loaded, the run fails, both, or nothing
RetryThrows == SUBSET {"load_source_config", "run"}

\* the steps a call reaches: a config that was passed in is not loaded
StagesReached(pipeline_config_given, source_config_given) ==
    FilterSeq(StageOrder,
              Stages \ ((IF pipeline_config_given THEN {"load_pipeline_config"} ELSE {})
                        \cup (IF source_config_given THEN {"load_source_config"} ELSE {})))

\* PipelineExecutionResult (error "" when there is none); raised is TRUE when the
\* call threw instead of returning
PipelineExecutionResult(success, err, start_time, raised) ==
    [success |-> success, error |-> err, start_time |-> start_time, raised |-> raised]

\* a try block that starts after the configs are loaded: a load error escapes
execute_pipeline_LateTry(pipeline_config_given, source_config_given, throws, now) ==
    LET thrown == FilterSeq(StagesReached(pipeline_config_given, source_config_given), throws)
    IN  IF thrown = <<>>
        THEN PipelineExecutionResult(TRUE, "", now, FALSE)
        ELSE PipelineExecutionResult(FALSE, Head(thrown), now,
                 Head(thrown) \in {"load_pipeline_config", "load_source_config"})

\* execute_pipeline: the first step that throws ends the try block; the except
\* clause turns the exception into a failed result
execute_pipeline(pipeline_config_given, source_config_given, throws, now) ==
    LET thrown == FilterSeq(StagesReached(pipeline_config_given, source_config_given), throws)
    IN  IF thrown = <<>>
        THEN PipelineExecutionResult(TRUE, "", now, FALSE)
        ELSE PipelineExecutionResult(FALSE, Head(thrown), now, FALSE)

\* Python's `a or b` on an optional int: None and 0 are falsy
PyOr(a, b) == IF a = None \/ a = Some(0) THEN b ELSE a[1]

\* a loop over range(max_retries): one attempt too few
RetryRange_OffByOne(n) == 0..(n - 1)

\* range(max_retries + 1)
RetryRange(n) == 0..n

\* a direct call of execute_pipeline
CallExecutePipeline(pipeline_config_given, source_config_given, throws) ==
    /\ ex_pc = "idle"
    /\ ep_call' = Some([pipeline_config_given |-> pipeline_config_given,
                        source_config_given |-> source_config_given, throws |-> throws])
    /\ ep_result' = Some(execute_pipeline(pipeline_config_given, source_config_given, throws, 0))
    /\ ex_pc' = IF ep_result'[1].raised THEN "raised" ELSE "returned"
    /\ UNCHANGED <<notExec, retry_call, max_retries, retry_delay, attempt, attempts, sleeps,
                   last_result, ret>>

\* execute_pipeline_with_retry up to the loop: load the pipeline config (which
\* may raise), then settle max_retries and retry_delay
CallExecutePipelineWithRetry(max_retries_arg, retry_delay_arg, cfg_retries, cfg_delay, loads) ==
    /\ ex_pc = "idle"
    /\ retry_call' = Some([max_retries |-> max_retries_arg, retry_delay |-> retry_delay_arg,
                           execution |-> [retries |-> cfg_retries,
                                          retry_delay |-> cfg_delay]])
    /\ IF loads
       THEN /\ max_retries' = PyOr(max_retries_arg, cfg_retries)
            /\ retry_delay' = PyOr(retry_delay_arg, cfg_delay)
            /\ ex_pc' = "loop"
       ELSE /\ ex_pc' = "raised"
            /\ UNCHANGED <<max_retries, retry_delay>>
    /\ attempt' = 0
    /\ UNCHANGED <<notExec, ep_call, ep_result, attempts, sleeps, last_result, ret>>

\* one pass of the for loop
RetryAttempt(throws) ==
    /\ ex_pc = "loop"
    /\ attempt \in RetryRange(max_retries)
    /\ sleeps' = IF attempt > 0
                 THEN Append(sleeps, [before |-> attempt + 1, seconds |-> retry_delay])
                 ELSE sleeps
    /\ LET result == execute_pipeline(TRUE, FALSE, throws, attempt + 1) IN
        /\ attempts' = Append(attempts, result)
        /\ IF result.raised
           THEN /\ ex_pc' = "raised"
                /\ UNCHANGED <<attempt, last_result, ret>>
           ELSE IF result.success
           THEN /\ ex_pc' = "returned"
                /\ ret' = Some(result)
                /\ UNCHANGED <<attempt, last_result>>
           ELSE /\ last_result' = Some(result)
                /\ attempt' = attempt + 1
                /\ UNCHANGED <<ex_pc, ret>>
    /\ UNCHANGED <<notExec, retry_call, ep_call, ep_result, max_retries, retry_delay>>

\* the loop is over: assert last_result is not None; return last_result
RetryExhausted ==
    /\ ex_pc = "loop"
    /\ attempt \notin RetryRange(max_retries)
    /\ IF last_result = None
       THEN ex_pc' = "raised" /\ ret' = ret
       ELSE ex_pc' = "returned" /\ ret' = last_result
    /\ UNCHANGED <<notExec, retry_call, ep_call, ep_result, max_retries, retry_delay,
                   attempt, attempts, sleeps, last_result>>

IdleExec ==
    /\ ex_pc = "idle"
    /\ retry_call = None
    /\ ep_call = None
    /\ ep_result = None
    /\ max_retries = 0
    /\ retry_delay = 0
    /\ attempt = 0
    /\ attempts = <<>>
    /\ sleeps = <<>>
    /\ last_result = None
    /\ ret = None

----------------------------------------------------------------------------
\* SecretsResolver (src/ingestion/config/secrets_resolver.py)

SecretKeys == {"TEST_API_KEY", "OPTIONAL_KEY"}

\* values an environment variable may hold (the empty string included)
SecretValues == {"", "good", "bad!"}

\* A regex is modelled by the set of values re.match accepts.
\* r"^[a-zA-Z0-9_-]+$" accepts "good" only.
AlnumPattern == {"good"}
ReMatch(pattern, value) == value \in pattern

\* SecretMapping: only the required flag is read by the resolver
SecretMapping(required) == [required |-> required]

\* validation.required_secrets: a list of keys, each named once
RequiredSecretsLists ==
    {<<>>} \cup {<<k>> : k \in SecretKeys}
           \cup {p \in SecretKeys \X SecretKeys : p[1] # p[2]}

SecretsConfigs ==
    [secrets : [SecretKeys -> {None, Some(SecretMapping(TRUE)), Some(SecretMapping(FALSE))}],
     validation : [required_secrets : RequiredSecretsLists,
                   patterns : [SecretKeys -> {None, Some(AlnumPattern)}]]]

\* os.getenv(secret_key)
GetEnv(env, secret_key) == env[secret_key]

\* a lookup that never finds the key in the cache
CacheLookup_Miss(c, secret_key) == None

\* `secret_key in self._cache` and self._cache[secret_key]
CacheLookup(c, secret_key) == c[secret_key]

CacheStore(c, secret_key, value) == [c EXCEPT ![secret_key] = Some(value)]

\* the outcome of a get_secret call
Returned(value, c, read_env) ==
    [outcome |-> "return", message |-> "", value |-> value, cache |-> c,
     read_env |-> read_env]
Raised(message, c) ==
    [outcome |-> "ValueError", message |-> message, value |-> "", cache |-> c,
     read_env |-> TRUE]

\* an optional missing secret that is put in the cache as ""
OnMissing_CacheEmpty(cfg, c, secret_key) ==
    IF cfg.secrets[secret_key] # None
    THEN IF cfg.secrets[secret_key][1].required
         THEN Raised("Required secret not found in environment variables", c)
         ELSE Returned("", CacheStore(c, secret_key, ""), TRUE)
    ELSE Raised("not defined in secrets mapping", c)

\* get_secret when os.getenv returned None
OnMissing(cfg, c, secret_key) ==
    IF cfg.secrets[secret_key] # None
    THEN IF cfg.secrets[secret_key][1].required
         THEN Raised("Required secret not found in environment variables", c)
         ELSE Returned("", c, TRUE)
    ELSE Raised("not defined in secrets mapping", c)

\* a value that is put in the cache before its pattern is checked
OnPresent_CacheFirst(cfg, c, secret_key, value) ==
    IF /\ cfg.validation.patterns[secret_key] # None
       /\ ~ReMatch(cfg.validation.patterns[secret_key][1], value)
    THEN Raised("does not match required pattern", CacheStore(c, secret_key, value))
    ELSE Returned(value, CacheStore(c, secret_key, value), TRUE)

\* get_secret when os.getenv returned a value
OnPresent(cfg, c, secret_key, value) ==
    IF /\ cfg.validation.patterns[secret_key] # None
       /\ ~ReMatch(cfg.validation.patterns[secret_key][1], value)
    THEN Raised("does not match required pattern", c)
    ELSE Returned(value, CacheStore(c, secret_key, value), TRUE)

\* a lookup of the mapping that comes before the environment is read
get_secret_MappingFirst(cfg, c, env, secret_key) ==
    IF CacheLookup(c, secret_key) # None
    THEN Returned(CacheLookup(c, secret_key)[1], c, FALSE)
    ELSE IF cfg.secrets[secret_key] = None
    THEN Raised("not defined in secrets mapping", c)
    ELSE LET value == GetEnv(env, secret_key) IN
         IF value = None
         THEN OnMissing(cfg, c, secret_key)
         ELSE OnPresent(cfg, c, secret_key, value[1])

\* get_secret: the cache, then the environment, then the mapping or the pattern
get_secret(cfg, c, env, secret_key) ==
    IF CacheLookup(c, secret_key) # None
    THEN Returned(CacheLookup(c, secret_key)[1], c, FALSE)
    ELSE LET value == GetEnv(env, secret_key) IN
         IF value = None
         THEN OnMissing(cfg, c, secret_key)
         ELSE OnPresent(cfg, c, secret_key, value[1])

\* keep the last two calls
Remember(history, call) ==
    IF Len(history) < 2 THEN Append(history, call) ELSE <<history[2], call>>

GetSecret(secret_key) ==
    /\ LET r == get_secret(secrets_config, cache, environ, secret_key) IN
        /\ cache' = r.cache
        /\ calls' = Remember(calls,
                        [key |-> secret_key, env |-> environ[secret_key],
                         cache_before |-> cache, outcome |-> r.outcome,
                         message |-> r.message, value |-> r.value,
                         read_env |-> r.read_env])
    /\ validated' = None
    /\ UNCHANGED <<notSec, secrets_config, environ>>

\* the for loop of validate_required_secrets over the keys still to visit
RECURSIVE ValidateLoop(_, _, _, _, _)
ValidateLoop(cfg, c, env, keys, missing_secrets) ==
    IF keys = <<>>
    THEN [cache |-> c, missing_secrets |-> missing_secrets]
    ELSE LET r == get_secret(cfg, c, env, Head(keys)) IN
         ValidateLoop(cfg, r.cache, env, Tail(keys),
                      IF r.outcome = "ValueError"
                      THEN Append(missing_secrets, Head(keys))
                      ELSE missing_secrets)

validate_required_secrets(cfg, c, env) ==
    LET l == ValidateLoop(cfg, c, env, cfg.validation.required_secrets, <<>>) IN
    [outcome |-> IF l.missing_secrets # <<>> THEN "ValueError" ELSE "return",
     missing_secrets |-> l.missing_secrets,
     cache |-> l.cache]

ValidateRequiredSecrets ==
    /\ LET r == validate_required_secrets(secrets_config, cache, environ) IN
        /\ cache' = r.cache
        /\ validated' = Some([outcome |-> r.outcome, missing_secrets |-> r.missing_secrets,
                              env |-> environ, cache_before |-> cache])
    /\ calls' = <<>>
    /\ UNCHANGED <<notSec, secrets_config, environ>>

ClearCache ==
    /\ cache' = [k \in SecretKeys |-> None]
    /\ calls' = <<>>
    /\ validated' = None
    /\ UNCHANGED <<notSec, secrets_config, environ>>

\* the environment gains or overwrites a variable (load_dotenv, os.environ[k] = v)
SetEnv(k, v) ==
    /\ environ[k] # Some(v)
    /\ environ' = [environ EXCEPT ![k] = Some(v)]
    /\ validated' = None
    /\ UNCHANGED <<notSec, secrets_config, cache, calls>>

IdleSec ==
    /\ secrets_config = [secrets |-> [k \in SecretKeys |-> None],
                         validation |-> [required_secrets |-> <<>>,
                                         patterns |-> [k \in SecretKeys |-> None]]]
    /\ environ = [k \in SecretKeys |-> None]
    /\ cache = [k \in SecretKeys |-> None]
    /\ calls = <<>>
    /\ validated = None

----------------------------------------------------------------------------
\* SecretsResolver.resolve_dict (src/ingestion/config/secrets_resolver.py)

\* the nesting depth of the dictionaries passed to resolve_dict
MaxDepth == 1

\* A key is the sequence of the pieces of its text; "_secret_key" is one piece.
SecretKeySuffix == "_secret_key"

\* "token", "token_secret_key", "token_secret_key_id", "token_secret_key_id_secret_key"
DictKeys ==
    {<<"token">>, <<"token", SecretKeySuffix>>, <<"token", SecretKeySuffix, "_id">>,
     <<"token", SecretKeySuffix, "_id", SecretKeySuffix>>}

\* the keys under which a nested dictionary or list is put
OuterKeys == {<<"token">>, <<"token", SecretKeySuffix>>}

\* Values: a str, an int, a dict (a list of entries in insertion order, each
\* key once) or a list
Str(s) == [str |-> s]
Num(n) == [num |-> n]
Dict(d) == [dict |-> d]
List(l) == [list |-> l]
IsStr(v) == DOMAIN v = {"str"}
IsDict(v) == DOMAIN v = {"dict"}
IsList(v) == DOMAIN v = {"list"}

Entry(key, value) == [key |-> key, value |-> value]

\* scalars: the name of a secret, or a number
Scalars == {Str(k) : k \in SecretKeys} \cup {Num(1)}

\* dictionaries of scalars with at most two entries
FlatDicts ==
    {<<>>} \cup {<<Entry(k, v)>> : k \in DictKeys, v \in Scalars}
           \cup {<<Entry(k[1], v[1]), Entry(k[2], v[2])>> :
                    k \in {kk \in DictKeys \X DictKeys : kk[1] # kk[2]},
                    v \in Scalars \X Scalars}

\* a dictionary, a list of one dictionary, or a list of a scalar and a dictionary
Wrappings(d) ==
    {Dict(d), List(<<Dict(d)>>)} \cup {List(<<s, Dict(d)>>) : s \in Scalars}

RECURSIVE Datas(_)
Datas(depth) ==
    IF depth = 0
    THEN FlatDicts
    ELSE FlatDicts \cup {<<Entry(k, w)>> :
                            k \in OuterKeys, w \in UNION {Wrappings(d) : d \in Datas(depth - 1)}}

\* key.endswith("_secret_key")
EndsWith(key, suffix) == key # <<>> /\ key[Len(key)] = suffix

\* key.replace("_secret_key", ""): every occurrence is removed
StrReplace(key, old) == FilterSeq(key, Range(key) \ {old})

\* key in resolved
HasKey(d, key) == \E n \in 1..Len(d) : d[n].key = key

\* resolved[key]
DictGet(d, key) == d[CHOOSE n \in 1..Len(d) : d[n].key = key].value

\* resolved[key] = value
DictSet(d, key, value) ==
    IF HasKey(d, key)
    THEN [n \in 1..Len(d) |-> IF d[n].key = key THEN Entry(key, value) ELSE d[n]]
    ELSE Append(d, Entry(key, value))

\* what resolve_dict produces: a dictionary, or the ValueError of get_secret
Resolved(value, c) == [raised |-> FALSE, value |-> value, cache |-> c]
ResolveRaised(c) == [raised |-> TRUE, value |-> <<>>, cache |-> c]

RECURSIVE resolve_dict(_, _, _, _)
RECURSIVE ResolveItems(_, _, _, _, _)
RECURSIVE ResolveList(_, _, _, _, _)

\* the loop over value: a dict item is resolved, any other item is appended as it is
ResolveList(cfg, c, env, value, result_list) ==
    IF value = <<>>
    THEN Resolved(result_list, c)
    ELSE LET item == Head(value) IN
         IF IsDict(item)
         THEN LET r == resolve_dict(cfg, c, env, item.dict) IN
              IF r.raised
              THEN r
              ELSE ResolveList(cfg, r.cache, env, Tail(value), Append(result_list, Dict(r.value)))
         ELSE ResolveList(cfg, c, env, Tail(value), Append(result_list, item))

\* the loop over data.items()
ResolveItems(cfg, c, env, items, acc) ==
    IF items = <<>>
    THEN Resolved(acc, c)
    ELSE LET key == Head(items).key
             value == Head(items).value
         IN
         IF IsDict(value)
         THEN LET r == resolve_dict(cfg, c, env, value.dict) IN
              IF r.raised
              THEN r
              ELSE ResolveItems(cfg, r.cache, env, Tail(items), DictSet(acc, key, Dict(r.value)))
         ELSE IF IsList(value)
         THEN LET r == ResolveList(cfg, c, env, value.list, <<>>) IN
              IF r.raised
              THEN r
              ELSE ResolveItems(cfg, r.cache, env, Tail(items), DictSet(acc, key, List(r.value)))
         ELSE IF IsStr(value) /\ EndsWith(key, SecretKeySuffix)
         THEN LET actual_key == StrReplace(key, SecretKeySuffix)
                  g == get_secret(cfg, c, env, value.str)
              IN
              IF g.outcome = "ValueError"
              THEN ResolveRaised(g.cache)
              ELSE ResolveItems(cfg, g.cache, env, Tail(items),
                                DictSet(acc, actual_key, Str(g.value)))
         ELSE ResolveItems(cfg, c, env, Tail(items), DictSet(acc, key, value))

resolve_dict(cfg, c, env, d) == ResolveItems(cfg, c, env, d, <<>>)

ResolveDict ==
    /\ rs_pc = "ready"
    /\ LET r == resolve_dict(secrets_config, cache, environ, data) IN
        /\ cache' = r.cache
        /\ resolved' = IF r.raised THEN None ELSE Some(r.value)
        /\ rs_pc' = IF r.raised THEN "raised" ELSE "returned"
    /\ calls' = <<>>
    /\ validated' = None
    /\ UNCHANGED <<jobVars, execVars, valVars, restVars, secrets_config, environ, data>>

IdleRes ==
    /\ data = <<>>
    /\ resolved = None
    /\ rs_pc = "idle"

\* the secrets_config fixture of the resolver's tests
TestSecretsConfig ==
    [secrets |-> [k \in SecretKeys |->
                     Some(SecretMapping(k = "TEST_API_KEY"))],
     validation |-> [required_secrets |-> <<"TEST_API_KEY">>,
                     patterns |-> [k \in SecretKeys |->
                                      IF k = "TEST_API_KEY" THEN Some(AlnumPattern) ELSE None]]]

----------------------------------------------------------------------------
\* Configuration models (src/ingestion/config/models.py)

\* the number of resources of a source, and of resource names a pipeline requests
MaxResources == 2

ResourceNames == {"users", "events"}
WriteDispositions == {"append", "replace", "merge"}
DestinationTypes == {"databricks", "snowflake", "bigquery", "postgres", "duckdb"}

\* the environment keyword the callers pass to the constructors
Environments == {"dev", "prod"}

\* lists over S of length 0..n
ListsUpTo(S, n) == UNION {[1..k -> S] : k \in 0..n}

IncrementalConfig(enabled, cursor_field) == [enabled |-> enabled, cursor_field |-> cursor_field]

IncrementalChoices ==
    {None, Some(IncrementalConfig(TRUE, "")), Some(IncrementalConfig(TRUE, "updated_at")),
     Some(IncrementalConfig(FALSE, ""))}

ResourceConfig(name, incremental, primary_key, write_disposition) ==
    [name |-> name, incremental |-> incremental, primary_key |-> primary_key,
     write_disposition |-> write_disposition]

ResourceConfigs ==
    {ResourceConfig(n, i, p, w) :
        n \in ResourceNames, i \in IncrementalChoices, p \in {<<>>, <<"id">>},
        w \in WriteDispositions}

\* a resource with the defaults of the model
PlainResource(name) == ResourceConfig(name, None, <<>>, "append")

\* SourceConfig declares name, type, description, connection and resources; a
\* keyword that is no field of the model (environment) is ignored
SourceConfig(environment, resources) == [name |-> "test_source", resources |-> resources]

DestinationConnectionConfig(server_hostname_secret_key, http_path_secret_key, access_token_secret_key) ==
    [server_hostname_secret_key |-> server_hostname_secret_key,
     http_path_secret_key |-> http_path_secret_key,
     access_token_secret_key |-> access_token_secret_key]

DestinationSettings(vacuum_after_write, vacuum_retention_hours) ==
    [vacuum_after_write |-> vacuum_after_write, vacuum_retention_hours |-> vacuum_retention_hours]

\* DestinationConfig declares no environment field either
DestinationConfig(environment, type, connection, settings) ==
    [name |-> "test_dest", type |-> type, connection |-> connection, settings |-> settings]

\* the floor of vacuum_retention_hours
MinVacuumRetentionHours == 168

\* a *_secret_key field: unset, empty, or the name of a secret
SecretKeyFields == {None, Some(""), Some("DATABRICKS_SECRET")}

RetentionHours ==
    {0, MinVacuumRetentionHours - 1, MinVacuumRetentionHours, MinVacuumRetentionHours + 1}

DestinationConfigs ==
    {DestinationConfig("dev", t, DestinationConnectionConfig(h, p, a), DestinationSettings(v, r)) :
        t \in DestinationTypes, h \in SecretKeyFields, p \in SecretKeyFields,
        a \in SecretKeyFields, v \in BOOLEAN, r \in RetentionHours}

\* the valid_destination_config fixture of the validator's tests
ValidDestination ==
    DestinationConfig("dev", "databricks",
        DestinationConnectionConfig(Some("DATABRICKS_SECRET"), Some("DATABRICKS_SECRET"),
                                    Some("DATABRICKS_SECRET")),
        DestinationSettings(TRUE, MinVacuumRetentionHours))

\* a databricks destination without server_hostname_secret_key
DestinationWithoutHostname ==
    DestinationConfig("dev", "databricks",
        DestinationConnectionConfig(Some(""), Some("DATABRICKS_SECRET"), Some("DATABRICKS_SECRET")),
        DestinationSettings(FALSE, MinVacuumRetentionHours))

\* A cron string is the sequence of its characters:
\* "0 0 * * *", "0 0 *", " 0  0 * * * " and ""
CronStrings ==
    {<<"0", " ", "0", " ", "*", " ", "*", " ", "*">>,
     <<"0", " ", "0", " ", "*">>,
     <<" ", "0", " ", " ", "0", " ", "*", " ", "*", " ", "*", " ">>,
     <<>>}

\* PipelineConfig declares no environment field; of its fields the validator
\* reads source.resources, schedule and sla_hours
PipelineConfig(environment, resources, enabled, cron, sla_hours) ==
    [name |-> "test_pipeline", source |-> [resources |-> resources],
     schedule |-> [enabled |-> enabled, cron |-> cron], sla_hours |-> sla_hours]

\* the floor of sla_hours
MinSlaHours == 1

SlaHours == {MinSlaHours - 1, MinSlaHours}

PipelineConfigs ==
    {PipelineConfig("dev", r, e, c, s) :
        r \in ListsUpTo(ResourceNames, MaxResources), e \in BOOLEAN, c \in CronStrings,
        s \in SlaHours}

\* sources whose resources have the defaults of the model
PlainSources ==
    {SourceConfig("dev", [n \in DOMAIN r |-> PlainResource(r[n])]) :
        r \in ListsUpTo(ResourceNames, MaxResources)}

----------------------------------------------------------------------------
\* ConfigValidator (src/ingestion/config/validator.py)

\* an error of the returned list: the rule that failed and what the message names
Error(rule, subject) == [rule |-> rule, subject |-> subject]

\* what a validator call produces: the returned list (validate_all: the three
\* lists), or an exception
NoLists == [source |-> <<>>, destination |-> <<>>, pipeline |-> <<>>]
ValReturned(errors) == [raised |-> FALSE, exception |-> "", errors |-> errors, all |-> NoLists]
ValReturnedAll(lists) == [raised |-> FALSE, exception |-> "", errors |-> <<>>, all |-> lists]
ValRaised(exception) == [raised |-> TRUE, exception |-> exception, errors |-> <<>>, all |-> NoLists]

\* `not x` for an optional str: None and "" are falsy
IsEmpty(field) == field = None \/ field = Some("")

\* a cursor check that does not look at incremental.enabled
IncrementalErrors_IgnoreEnabled(resource) ==
    IF /\ resource.incremental # None
       /\ resource.incremental[1].cursor_field = ""
    THEN <<Error("incremental enabled but cursor_field not set", resource.name)>>
    ELSE <<>>

\* the check of the incremental config of one resource
IncrementalErrors(resource) ==
    IF /\ resource.incremental # None
       /\ resource.incremental[1].enabled
       /\ resource.incremental[1].cursor_field = ""
    THEN <<Error("incremental enabled but cursor_field not set", resource.name)>>
    ELSE <<>>

\* a primary-key check applied whatever the write disposition
MergeErrors_AnyDisposition(resource) ==
    IF resource.primary_key = <<>>
    THEN <<Error("write_disposition is 'merge' but no primary_key defined", resource.name)>>
    ELSE <<>>

\* the check of the primary key of one resource
MergeErrors(resource) ==
    IF resource.write_disposition = "merge" /\ resource.primary_key = <<>>
    THEN <<Error("write_disposition is 'merge' but no primary_key defined", resource.name)>>
    ELSE <<>>

\* the errors one resource adds in the loop of validate_source_config
ResourceErrors(resource) == IncrementalErrors(resource) \o MergeErrors(resource)

RECURSIVE ResourceLoop(_, _)
ResourceLoop(resources, errors) ==
    IF resources = <<>>
    THEN errors
    ELSE ResourceLoop(Tail(resources), errors \o ResourceErrors(Head(resources)))

validate_source_config(config) ==
    ValReturned(
        ResourceLoop(config.resources,
            IF config.resources = <<>>
            THEN <<Error("Source must have at least one resource defined", "")>>
            ELSE <<>>))

\* a retention check that also rejects the floor itself
VacuumErrors_FloorRejected(settings) ==
    IF /\ settings.vacuum_after_write
       /\ settings.vacuum_retention_hours <= MinVacuumRetentionHours
    THEN <<Error("vacuum_retention_hours must be at least 168", "")>>
    ELSE <<>>

\* the retention check
VacuumErrors(settings) ==
    IF /\ settings.vacuum_after_write
       /\ settings.vacuum_retention_hours < MinVacuumRetentionHours
    THEN <<Error("vacuum_retention_hours must be at least 168", "")>>
    ELSE <<>>

\* connection checks that stop at the first missing field
DatabricksErrors_FirstOnly(connection) ==
    IF IsEmpty(connection.server_hostname_secret_key)
    THEN <<Error("Databricks destination requires", "server_hostname_secret_key")>>
    ELSE IF IsEmpty(connection.http_path_secret_key)
    THEN <<Error("Databricks destination requires", "http_path_secret_key")>>
    ELSE IF IsEmpty(connection.access_token_secret_key)
    THEN <<Error("Databricks destination requires", "access_token_secret_key")>>
    ELSE <<>>

\* the checks of the connection of a databricks destination
DatabricksErrors(connection) ==
    (IF IsEmpty(connection.server_hostname_secret_key)
     THEN <<Error("Databricks destination requires", "server_hostname_secret_key")>>
     ELSE <<>>)
    \o
    (IF IsEmpty(connection.http_path_secret_key)
     THEN <<Error("Databricks destination requires", "http_path_secret_key")>>
     ELSE <<>>)
    \o
    (IF IsEmpty(connection.access_token_secret_key)
     THEN <<Error("Databricks destination requires", "access_token_secret_key")>>
     ELSE <<>>)

validate_destination_config(config) ==
    ValReturned(
        (IF config.type = "databricks" THEN DatabricksErrors(config.connection) ELSE <<>>)
        \o VacuumErrors(config.settings))

\* str.strip() and str.split() on the characters of a string
Whitespace == {" "}

RECURSIVE StrLStrip(_)
StrLStrip(s) == IF s # <<>> /\ Head(s) \in Whitespace THEN StrLStrip(Tail(s)) ELSE s

RECURSIVE StrRStrip(_)
StrRStrip(s) ==
    IF s # <<>> /\ s[Len(s)] \in Whitespace THEN StrRStrip(SubSeq(s, 1, Len(s) - 1)) ELSE s

StrStrip(s) == StrRStrip(StrLStrip(s))

\* split on runs of whitespace; cur is the part being read
RECURSIVE SplitLoop(_, _, _)
SplitLoop(s, cur, parts) ==
    IF s = <<>>
    THEN IF cur = <<>> THEN parts ELSE Append(parts, cur)
    ELSE IF Head(s) \in Whitespace
    THEN SplitLoop(Tail(s), <<>>, IF cur = <<>> THEN parts ELSE Append(parts, cur))
    ELSE SplitLoop(Tail(s), Append(cur, Head(s)), parts)

StrSplit(s) == SplitLoop(s, <<>>, <<>>)

\* the number of parts of a cron expression
CronFields == 5

ScheduleErrors(schedule) ==
    IF schedule.enabled /\ Len(StrSplit(StrStrip(schedule.cron))) # CronFields
    THEN <<Error("Invalid cron expression", "")>>
    ELSE <<>>

SlaErrors(config) ==
    IF config.sla_hours < MinSlaHours
    THEN <<Error("SLA hours must be at least 1", "")>>
    ELSE <<>>

\* the loop over config.source.resources
RECURSIVE RequestedLoop(_, _, _)
RequestedLoop(requested, available_resources, errors) ==
    IF requested = <<>>
    THEN errors
    ELSE RequestedLoop(Tail(requested), available_resources,
            IF Head(requested) \notin available_resources
            THEN Append(errors, Error("requested in pipeline but not defined in source",
                                      Head(requested)))
            ELSE errors)

\* obj.name: an attribute the object does not have raises AttributeError
HasAttr(obj, name) == name \in DOMAIN obj

\* the environment check against the source or the destination (other)
EnvironmentCheck(config, other, kind, errors) ==
    IF ~HasAttr(config, "environment") \/ ~HasAttr(other, "environment")
    THEN ValRaised("AttributeError")
    ELSE IF config.environment # other.environment
    THEN ValReturned(Append(errors, Error("Environment mismatch", kind)))
    ELSE ValReturned(errors)

validate_pipeline_config(config, source_config, destination_config) ==
    LET own == ScheduleErrors(config.schedule) \o SlaErrors(config)
        against_source ==
            IF source_config # None
            THEN EnvironmentCheck(config, source_config[1], "source",
                    RequestedLoop(config.source.resources,
                                  {source_config[1].resources[n].name :
                                      n \in DOMAIN source_config[1].resources},
                                  own))
            ELSE ValReturned(own)
    IN
    IF against_source.raised
    THEN against_source
    ELSE IF destination_config # None
    THEN EnvironmentCheck(config, destination_config[1], "destination", against_source.errors)
    ELSE against_source

validate_all(source_config, destination_config, pipeline_config) ==
    LET source == validate_source_config(source_config)
        destination == validate_destination_config(destination_config)
        pipeline == validate_pipeline_config(pipeline_config, Some(source_config),
                                             Some(destination_config))
    IN
    IF pipeline.raised
    THEN pipeline
    ELSE ValReturnedAll([source |-> source.errors, destination |-> destination.errors,
                         pipeline |-> pipeline.errors])

\* a call: the function, its arguments (None for an argument not passed) and
\* the environment keyword each config was built with ("" if not passed)
Call(fn, source, destination, pipeline, env) ==
    [fn |-> fn, source |-> source, destination |-> destination, pipeline |-> pipeline,
     env |-> env]

Envs(pipeline, source, destination) ==
    [pipeline |-> pipeline, source |-> source, destination |-> destination]

ValidateSourceConfigCall(s) ==
    Call("validate_source_config", Some(s), None, None, Envs("", "dev", ""))

ValidateDestinationConfigCall(d) ==
    Call("validate_destination_config", None, Some(d), None, Envs("", "", "dev"))

\* source_config and destination_config are optional; e, se and de are the
\* environment keywords of the pipeline, the source and the destination
ValidatePipelineConfigCall(p, s, d, e, se, de) ==
    Call("validate_pipeline_config", s, d, Some(p),
         Envs(e, IF s = None THEN "" ELSE se, IF d = None THEN "" ELSE de))

ValidateAllCall(s, d, p, e) ==
    Call("validate_all", Some(s), Some(d), Some(p), Envs(e, "dev", "dev"))

ValidateSourceConfig ==
    /\ val_call.fn = "validate_source_config"
    /\ val_result = None
    /\ val_result' = Some(validate_source_config(val_call.source[1]))
    /\ UNCHANGED <<notVal, val_call>>

ValidateDestinationConfig ==
    /\ val_call.fn = "validate_destination_config"
    /\ val_result = None
    /\ val_result' = Some(validate_destination_config(val_call.destination[1]))
    /\ UNCHANGED <<notVal, val_call>>

ValidatePipelineConfig ==
    /\ val_call.fn = "validate_pipeline_config"
    /\ val_result = None
    /\ val_result' = Some(validate_pipeline_config(val_call.pipeline[1], val_call.source,
                                                   val_call.destination))
    /\ UNCHANGED <<notVal, val_call>>

ValidateAll ==
    /\ val_call.fn = "validate_all"
    /\ val_result = None
    /\ val_result' = Some(validate_all(val_call.source[1], val_call.destination[1],
                                       val_call.pipeline[1]))
    /\ UNCHANGED <<notVal, val_call>>

IdleVal ==
    /\ val_call = Call("idle", None, None, None, Envs("", "", ""))
    /\ val_result = None

----------------------------------------------------------------------------
\* ConfigLoader bulk operations (src/ingestion/config/loader.py)

\* the number of *.yaml files in a directory
MaxFiles == 2

\* the names of the files, by position in the listing of the directory
AllFileNames == <<"first.yaml", "second.yaml", "third.yaml", "fourth.yaml">>

\* the name field a config declares
DeclaredNames == {"source_0", "source_1"}

\* what load_source_config / load_destination_config / load_pipeline_config do
\* with a file: return a config with a declared name, or raise
Loads(name) == [raises |-> "", name |-> name]
FailsToLoad(exception) == [raises |-> exception, name |-> ""]

\* malformed YAML, an empty file (data is None), a schema violation
LoadExceptions == {"YAMLError", "AttributeError", "ValueError"}

FileContents == {Loads(n) : n \in DeclaredNames} \cup {FailsToLoad(e) : e \in LoadExceptions}

File(filename, content) == [filename |-> filename, content |-> content]

BulkOperations == {"sources", "destinations", "pipelines"}

\* load_all_sources and load_all_destinations wrap the loop body in
\* try/except Exception; load_all_pipelines does not
CatchesLoadError(operation) == operation \in {"sources", "destinations"}

\* a key taken from the name of the file
ResultKey_Filename(file) == file.filename

\* the key of the entry a loaded config gets
ResultKey(file) == file.content.name

\* the directory does not exist: return {}
LoadAllNoDirectory ==
    /\ ld_pc = "nodir"
    /\ ld_pc' = "returned"
    /\ UNCHANGED <<notLoad, ld_call, ld_files, ld_pos, ld_result>>

\* one pass of the loop whose load_*_config call returns a config
LoadFile ==
    /\ ld_pc = "loop"
    /\ ld_pos <= Len(ld_files)
    /\ ld_files[ld_pos].content.raises = ""
    /\ ld_result' = DictSet(ld_result, ResultKey(ld_files[ld_pos]),
                            Str(ld_files[ld_pos].filename))
    /\ ld_pos' = ld_pos + 1
    /\ UNCHANGED <<notLoad, ld_call, ld_files, ld_pc>>

\* one pass of the loop whose load_*_config call raises
LoadFileFails ==
    /\ ld_pc = "loop"
    /\ ld_pos <= Len(ld_files)
    /\ ld_files[ld_pos].content.raises # ""
    /\ IF CatchesLoadError(ld_call)
       THEN ld_pos' = ld_pos + 1 /\ ld_pc' = ld_pc
       ELSE ld_pos' = ld_pos /\ ld_pc' = "raised"
    /\ UNCHANGED <<notLoad, ld_call, ld_files, ld_result>>

\* the loop is over: return the dict
LoadAllReturn ==
    /\ ld_pc = "loop"
    /\ ld_pos > Len(ld_files)
    /\ ld_pc' = "returned"
    /\ UNCHANGED <<notLoad, ld_call, ld_files, ld_pos, ld_result>>

IdleLoad ==
    /\ ld_call = "idle"
    /\ ld_files = <<>>
    /\ ld_pos = 1
    /\ ld_result = <<>>
    /\ ld_pc = "idle"

----------------------------------------------------------------------------
\* all_pipelines_flow and execute_pipeline_task (orchestration/flows.py)

\* the number of requested pipelines
MaxPipelines == 2

PipelineNames == {"github_to_duckdb", "orders_to_duckdb"}

\* @task(retries=3): a task run that raised is run again up to three times
TaskRetries == 3

\* execute_pipeline_task.submit(...): a task run that has not started
Future(name) == [name |-> name, state |-> "pending", runs |-> 0]

Final(future) == future.state \in {"completed", "failed"}

\* result.to_dict() of a successful run
ResultDict(name) == [success |-> TRUE, error |-> None, pipeline_name |-> name]

\* the dict the except clause stores
FailureDict(name) == [success |-> FALSE, error |-> Some("Pipeline execution failed"),
                      pipeline_name |-> name]

\* no except clause: every future counts as a result
CollectedResult_NoExcept(future) == ResultDict(future.name)

\* try: result = future.result() / except Exception: the failure dict
CollectedResult(future) ==
    IF future.state = "completed" THEN ResultDict(future.name) ELSE FailureDict(future.name)

\* one pass of the submitting loop
FlowSubmit ==
    /\ fl_pc = "submit"
    /\ Len(fl_futures) < Len(fl_names)
    /\ fl_futures' = Append(fl_futures, Future(fl_names[Len(fl_futures) + 1]))
    /\ UNCHANGED <<notFlow, fl_names, fl_pos, fl_waits, fl_results, fl_pc>>

\* the submitting loop is over
FlowSubmitted ==
    /\ fl_pc = "submit"
    /\ Len(fl_futures) = Len(fl_names)
    /\ fl_pc' = "collect"
    /\ UNCHANGED <<notFlow, fl_names, fl_futures, fl_pos, fl_waits, fl_results>>

\* one run of execute_pipeline_task on a worker: it returns the result dict,
\* or raises (a failed result, an unknown environment) and is retried
TaskRun(k, succeeds) ==
    /\ k \in 1..Len(fl_futures)
    /\ ~Final(fl_futures[k])
    /\ fl_futures' = [fl_futures EXCEPT ![k] =
            [name |-> @.name,
             state |-> IF succeeds THEN "completed"
                       ELSE IF @.runs >= TaskRetries THEN "failed" ELSE "pending",
             runs |-> @.runs + 1]]
    /\ UNCHANGED <<notFlow, fl_names, fl_pos, fl_waits, fl_results, fl_pc>>

\* one pass of the collecting loop: future.result() returns or raises once the
\* task run is over
FlowCollect ==
    /\ fl_pc = "collect"
    /\ fl_pos <= Len(fl_futures)
    /\ Final(fl_futures[fl_pos])
    /\ fl_waits' = Append(fl_waits, fl_pos)
    /\ fl_results' = DictSet(fl_results, fl_futures[fl_pos].name,
                             CollectedResult(fl_futures[fl_pos]))
    /\ fl_pos' = fl_pos + 1
    /\ UNCHANGED <<notFlow, fl_names, fl_futures, fl_pc>>

\* return results
FlowReturn ==
    /\ fl_pc = "collect"
    /\ fl_pos > Len(fl_futures)
    /\ fl_pc' = "returned"
    /\ UNCHANGED <<notFlow, fl_names, fl_futures, fl_pos, fl_waits, fl_results>>

IdleFlow ==
    /\ fl_names = <<>>
    /\ fl_futures = <<>>
    /\ fl_pos = 1
    /\ fl_waits = <<>>
    /\ fl_results = <<>>
    /\ fl_pc = "idle"

----------------------------------------------------------------------------
\* ConfigLoader.load_destination_config (src/ingestion/config/loader.py)

\* the *_secret_key fields of DestinationConnectionConfig, as keys of a YAML mapping
ConnectionSecretFields ==
    <<<<"server_hostname", SecretKeySuffix>>, <<"http_path", SecretKeySuffix>>,
      <<"access_token", SecretKeySuffix>>>>

\* the connection mapping of a YAML file: each field left out or set to the
\* name of a secret
ConnectionData(names) ==
    LET Item(n) == IF names[n] = None THEN <<>>
                   ELSE <<Entry(ConnectionSecretFields[n], Str(names[n][1]))>>
    IN  Item(1) \o Item(2) \o Item(3)

\* destination: {name: ..., type: ..., connection: {...}}
DestinationData(type, names) ==
    <<Entry(<<"name">>, Str("test_dest")), Entry(<<"type">>, Str(type)),
      Entry(<<"connection">>, Dict(ConnectionData(names)))>>

\* a declared str | None field of a model built from a mapping: the value
\* under the name of the field, None when the mapping has no such key; keys
\* that are no field of the model are ignored
OptionalField(mapping, field) ==
    IF HasKey(mapping, field) THEN Some(DictGet(mapping, field).str) ELSE None

\* DestinationConfig(**dest_data)
ParseDestinationConfig(dest_data) ==
    LET connection == DictGet(dest_data, <<"connection">>).dict IN
    DestinationConfig(None, DictGet(dest_data, <<"type">>).str,
        DestinationConnectionConfig(OptionalField(connection, ConnectionSecretFields[1]),
                                    OptionalField(connection, ConnectionSecretFields[2]),
                                    OptionalField(connection, ConnectionSecretFields[3])),
        DestinationSettings(FALSE, MinVacuumRetentionHours))

\* load_destination_config: resolve the secrets when there is a resolver, then
\* build the model; the ValueError of get_secret propagates
LoadDestinationConfig ==
    /\ dst_pc = "ready"
    /\ LET r == IF dst_resolver
                THEN resolve_dict(secrets_config, cache, environ, dst_data)
                ELSE Resolved(dst_data, cache)
       IN
        /\ cache' = r.cache
        /\ dst_config' = IF r.raised THEN None ELSE Some(ParseDestinationConfig(r.value))
        /\ dst_pc' = IF r.raised THEN "raised" ELSE "loaded"
    /\ UNCHANGED <<jobVars, execVars, resVars, valVars, loadVars, flowVars, secrets_config,
                   environ, calls, validated, dst_data, dst_resolver, dst_errors>>

\* ConfigValidator.validate_destination_config on the loaded config
ValidateLoadedDestination ==
    /\ dst_pc = "loaded"
    /\ dst_errors' = Some(validate_destination_config(dst_config[1]))
    /\ dst_pc' = "validated"
    /\ UNCHANGED <<jobVars, execVars, secVars, resVars, valVars, loadVars, flowVars,
                   dst_data, dst_resolver, dst_config>>

IdleDst ==
    /\ dst_data = <<>>
    /\ dst_resolver = FALSE
    /\ dst_config = None
    /\ dst_errors = None
    /\ dst_pc = "idle"

IdleRest == IdleLoad /\ IdleFlow /\ IdleDst

----------------------------------------------------------------------------
\* Specifications

InitJob ==
    /\ \/ \E c \in [StepIds -> SeqChoices] : job_config = JobConfig(c, "sequential", FALSE)
       \/ \E c \in [StepIds -> ParChoices], b \in BOOLEAN :
              job_config = JobConfig(c, "parallel", b)
       \/ \E c \in [StepIds -> DagChoices] : job_config = JobConfig(c, "dag", FALSE)
    /\ pc = job_config.execution.mode
    /\ results = <<>>
    /\ executed = {}
    /\ pending = IF job_config.execution.mode = "dag"
                 THEN [i \in StepIds |-> i] ELSE <<>>
    /\ futures = <<>>
    /\ pos = 1
    /\ task = [i \in StepIds |-> "none"]
    /\ started = <<>>
    /\ collected = <<>>
    /\ error = "none"
    /\ IdleExec
    /\ IdleSec
    /\ IdleRes
    /\ IdleVal
    /\ IdleRest

IdleJob ==
    /\ job_config = [pipelines |-> <<>>, execution |-> JobExecutionConfig("idle", FALSE)]
    /\ pc = "idle"
    /\ results = <<>>
    /\ executed = {}
    /\ pending = <<>>
    /\ futures = <<>>
    /\ pos = 1
    /\ task = <<>>
    /\ started = <<>>
    /\ collected = <<>>
    /\ error = "none"

NextJob ==
    \/ \E i \in StepIds, ok \in BOOLEAN : TaskComplete(i, ok)
    \/ SeqSkipDisabled
    \/ SeqCall
    \/ SeqResult
    \/ SeqDone
    \/ ParSkipDisabled
    \/ ParSubmit
    \/ ParSubmitted
    \/ ParCollect
    \/ ParDone
    \/ DagNoneReady
    \/ DagSubmitReady
    \/ DagCollect
    \/ DagDone

SpecJob == InitJob /\ [][NextJob]_vars

\* the flow runs on and every submitted task run ends: a step that can be
\* taken is taken
SpecJobFair == SpecJob /\ WF_vars(NextJob)

InitExec == IdleJob /\ IdleExec /\ IdleSec /\ IdleRes /\ IdleVal /\ IdleRest

NextExec ==
    \/ \E pg \in BOOLEAN, sg \in BOOLEAN, th \in SUBSET Stages :
          CallExecutePipeline(pg, sg, th)
    \/ \E mr \in OptRetries, rd \in OptDelays, cr \in 0..MaxRetries, cd \in 0..MaxDelay,
          ok \in BOOLEAN :
          CallExecutePipelineWithRetry(mr, rd, cr, cd, ok)
    \/ \E th \in RetryThrows : RetryAttempt(th)
    \/ RetryExhausted

SpecExecutor == InitExec /\ [][NextExec]_vars

\* SecretsResolver(secrets_config): an empty cache in some environment
InitSec ==
    /\ IdleJob
    /\ IdleExec
    /\ IdleRes
    /\ IdleVal
    /\ IdleRest
    /\ secrets_config \in SecretsConfigs
    /\ environ \in [SecretKeys -> {None} \cup {Some(v) : v \in SecretValues}]
    /\ cache = [k \in SecretKeys |-> None]
    /\ calls = <<>>
    /\ validated = None

NextSec ==
    \/ \E k \in SecretKeys : GetSecret(k)
    \/ ValidateRequiredSecrets
    \/ ClearCache
    \/ \E k \in SecretKeys, v \in SecretValues : SetEnv(k, v)

SpecSecrets == InitSec /\ [][NextSec]_vars

\* a fresh resolver about to resolve some dictionary in some environment
InitResolve ==
    /\ IdleJob
    /\ IdleExec
    /\ IdleVal
    /\ IdleRest
    /\ secrets_config = TestSecretsConfig
    /\ environ \in [SecretKeys -> {None} \cup {Some(v) : v \in SecretValues}]
    /\ cache = [k \in SecretKeys |-> None]
    /\ calls = <<>>
    /\ validated = None
    /\ data \in Datas(MaxDepth)
    /\ resolved = None
    /\ rs_pc = "ready"

NextResolve == ResolveDict

SpecResolve == InitResolve /\ [][NextResolve]_vars

\* a validator call about to be made
InitValidator ==
    /\ IdleJob
    /\ IdleExec
    /\ IdleSec
    /\ IdleRes
    /\ IdleRest
    /\ \/ \E k \in 0..MaxResources : \E r \in [1..k -> ResourceConfigs] :
              val_call = ValidateSourceConfigCall(SourceConfig("dev", r))
       \/ \E d \in DestinationConfigs : val_call = ValidateDestinationConfigCall(d)
       \/ \E p \in PipelineConfigs, s \in {None} \cup {Some(x) : x \in PlainSources},
              d \in {None, Some(ValidDestination)}, e \in Environments, o \in Environments :
              val_call = ValidatePipelineConfigCall(p, s, d, e, o, o)
       \/ \E s \in PlainSources, d \in {ValidDestination, DestinationWithoutHostname},
              p \in PipelineConfigs, e \in Environments :
              val_call = ValidateAllCall(s, d, p, e)
    /\ val_result = None

NextValidator ==
    \/ ValidateSourceConfig
    \/ ValidateDestinationConfig
    \/ ValidatePipelineConfig
    \/ ValidateAll

SpecValidator == InitValidator /\ [][NextValidator]_vars

\* a bulk operation called on a directory that does not exist or holds some files
InitLoader ==
    /\ IdleJob
    /\ IdleExec
    /\ IdleSec
    /\ IdleRes
    /\ IdleVal
    /\ IdleFlow
    /\ IdleDst
    /\ ld_call \in BulkOperations
    /\ \/ ld_pc = "nodir" /\ ld_files = <<>>
       \/ /\ ld_pc = "loop"
          /\ \E k \in 0..MaxFiles : \E c \in [1..k -> FileContents] :
                ld_files = [n \in 1..k |-> File(AllFileNames[n], c[n])]
    /\ ld_pos = 1
    /\ ld_result = <<>>

NextLoader ==
    \/ LoadAllNoDirectory
    \/ LoadFile
    \/ LoadFileFails
    \/ LoadAllReturn

SpecLoader == InitLoader /\ [][NextLoader]_vars

\* all_pipelines_flow called with a list of pipeline names
InitFlow ==
    /\ IdleJob
    /\ IdleExec
    /\ IdleSec
    /\ IdleRes
    /\ IdleVal
    /\ IdleLoad
    /\ IdleDst
    /\ \E k \in 0..MaxPipelines : fl_names \in [1..k -> PipelineNames]
    /\ fl_futures = <<>>
    /\ fl_pos = 1
    /\ fl_waits = <<>>
    /\ fl_results = <<>>
    /\ fl_pc = "submit"

NextFlow ==
    \/ FlowSubmit
    \/ FlowSubmitted
    \/ \E k \in 1..MaxPipelines, succeeds \in BOOLEAN : TaskRun(k, succeeds)
    \/ FlowCollect
    \/ FlowReturn

SpecFlow == InitFlow /\ [][NextFlow]_vars

\* a ConfigLoader, with or without a secrets mapping, loads a destination file
InitLoadDestination ==
    /\ IdleJob
    /\ IdleExec
    /\ IdleRes
    /\ IdleVal
    /\ IdleLoad
    /\ IdleFlow
    /\ secrets_config = TestSecretsConfig
    /\ environ \in [SecretKeys -> {None} \cup {Some(v) : v \in SecretValues}]
    /\ cache = [k \in SecretKeys |-> None]
    /\ calls = <<>>
    /\ validated = None
    /\ \E type \in DestinationTypes,
          names \in [1..3 -> {None} \cup {Some(k) : k \in SecretKeys}] :
          dst_data = DestinationData(type, names)
    /\ dst_resolver \in BOOLEAN
    /\ dst_config = None
    /\ dst_errors = None
    /\ dst_pc = "ready"

NextLoadDestination ==
    \/ LoadDestinationConfig
    \/ ValidateLoadedDestination

SpecLoadDestination == InitLoadDestination /\ [][NextLoadDestination]_vars

----------------------------------------------------------------------------
\* Properties of execute_job_flow

Finished(i) == task[i] \in {"ok", "failed"}

\* C1: in dag mode a step is dispatched only after every pipeline named in its
\* depends_on is in the executed set, i.e. a step of that name was collected
\* with a successful result; no dispatched step has a dependency that is
\* still pending, running or failed.
C1_DagDispatchAfterDeps ==
    Mode = "dag" =>
        \A i \in StepIds :
            task[i] # "none" =>
                \A dep \in Pipelines[i].depends_on :
                    /\ dep \in executed
                    /\ \E j \in StepIds :
                          /\ Pipelines[j].name = dep
                          /\ task[j] = "ok"
                          /\ j \in Range(collected)
                          /\ j \notin Range(pending)

\* a step with a dependency has been dispatched
C1_Witness ==
    /\ Mode = "dag"
    /\ \E i \in StepIds : task[i] # "none" /\ Pipelines[i].depends_on # {}

\* the depends_on graph of the job
DepsOfName(n) == UNION {Pipelines[j].depends_on : j \in {k \in StepIds : Pipelines[k].name = n}}
RECURSIVE DepClosure(_, _)
DepClosure(S, k) ==
    IF k = 0 THEN S ELSE DepClosure(S \cup UNION {DepsOfName(n) : n \in S}, k - 1)
HasCycle == \E i \in StepIds : Pipelines[i].name \in DepClosure(Pipelines[i].depends_on, NumSteps)
HasMissingDep == \E i \in StepIds : \E dep \in Pipelines[i].depends_on : dep \notin StepNames

\* C2: in dag mode the 'Circular dependency or missing pipeline' error is raised
\* exactly when steps remain pending and none is ready, and that situation
\* arises only when the depends_on graph has a cycle or names a pipeline that
\* is no step of the job.
C2_CycleErrorOnlyOnCycleOrMissing ==
    Mode = "dag" =>
        /\ error = "cycle" => pending # <<>> /\ Ready(pending, executed) = <<>>
        /\ error = "cycle" => (HasCycle \/ HasMissingDep)

\* C3: in parallel mode every enabled step is submitted before any result is
\* awaited, and the result of every submitted step is collected before the
\* outcome of the job (return or raise) is decided.
C3_ParallelCollectsAllBeforeOutcome ==
    Mode = "parallel" =>
        /\ collected # <<>> => \A i \in StepIds : Pipelines[i].enabled => i \in Range(started)
        /\ pc \in {"returned", "raised"} => Range(started) \subseteq Range(collected)

\* C4: in sequential mode a failed step without continue_on_failure makes the
\* flow raise with no later step executed; a failed step with
\* continue_on_failure lets the loop go on to the next step in order.
C4_SequentialFailurePolicy ==
    Mode = "sequential" =>
        \A k \in 1..Len(collected) :
            LET i == collected[k] IN
            task[i] = "failed" =>
                IF ~Pipelines[i].continue_on_failure
                THEN /\ pc = "raised"
                     /\ error = "task"
                     /\ k = Len(started)
                     /\ \A j \in StepIds :
                           SortRank(Pipelines, j) > SortRank(Pipelines, i) => task[j] = "none"
                ELSE /\ pos > SortRank(Pipelines, i)
                     /\ (pc = "raised" => k < Len(collected))
                     /\ (pc = "returned" =>
                           \A j \in StepIds : Pipelines[j].enabled => j \in Range(started))

\* a tolerated failure was followed by the next step, whose failure aborted the job
C4_Witness ==
    /\ Mode = "sequential"
    /\ pc = "raised"
    /\ Len(collected) = 2
    /\ task[collected[1]] = "failed"
    /\ Pipelines[collected[1]].continue_on_failure

\* C5: in sequential mode the enabled steps run one at a time in ascending
\* order of their order field, each starting only after the previous one has
\* finished, and a disabled step is never executed.
C5_SequentialOrder ==
    Mode = "sequential" =>
        /\ \A k, l \in 1..Len(started) :
              k < l => Pipelines[started[k]].order <= Pipelines[started[l]].order
        /\ \A k \in 1..(Len(started) - 1) :
              Finished(started[k]) /\ started[k] \in Range(collected)
        /\ Cardinality({i \in StepIds : task[i] = "running"}) <= 1
        /\ \A i \in StepIds : ~Pipelines[i].enabled => task[i] = "none"
        /\ (pc = "returned" =>
              \A i \in StepIds : Pipelines[i].enabled => i \in Range(started))

\* two steps ran, the second of the list first because its order is lower
C5_Witness ==
    /\ Mode = "sequential"
    /\ Len(started) = 2
    /\ started[1] > started[2]
    /\ Pipelines[started[1]].order < Pipelines[started[2]].order

----------------------------------------------------------------------------
\* Properties of PipelineExecutor

InRetryCall == retry_call # None

\* C6: with retry budget N (max_retries as the loop reads it) the loop makes at
\* most N+1 attempts, stops at the first successful attempt and returns its
\* result, sleeps retry_delay before every attempt but the first, and returns
\* the result of the last attempt when all N+1 failed.
C6_BoundedRetryLoop ==
    InRetryCall =>
        /\ Len(attempts) <= max_retries + 1
        /\ \A k \in 1..Len(attempts) : attempts[k].start_time = k
        /\ \A k \in 1..(Len(attempts) - 1) : ~attempts[k].success
        /\ sleeps = [k \in 1..(Len(attempts) - 1) |->
                        [before |-> k + 1, seconds |-> retry_delay]]
        /\ ex_pc = "returned" =>
              /\ attempts # <<>>
              /\ ret = Some(attempts[Len(attempts)])
              /\ (ret[1].success \/ Len(attempts) = max_retries + 1)
        /\ ex_pc = "raised" => attempts = <<>>
        /\ ex_pc = "loop" => \A k \in 1..Len(attempts) : ~attempts[k].success

\* every attempt of a budget of at least one retry failed, and the last result came back
C6_Witness ==
    /\ InRetryCall
    /\ ex_pc = "returned"
    /\ max_retries >= 1
    /\ Len(attempts) = max_retries + 1
    /\ ~ret[1].success
    /\ Len(sleeps) = max_retries

\* the steps of a direct call that are reached and throw
ThrowingReached(c) ==
    {st \in c.throws :
        /\ (st = "load_pipeline_config" => ~c.pipeline_config_given)
        /\ (st = "load_source_config" => ~c.source_config_given)}
StagePos(st) == CHOOSE k \in 1..Len(StageOrder) : StageOrder[k] = st

\* C7: execute_pipeline never raises; an exception while loading configs,
\* creating the pipeline or source, or running is returned as a result with
\* success=False carrying that exception, and success=True is returned only
\* when no step threw.
C7_ExecutePipelineNeverRaises ==
    /\ ep_call # None =>
          LET c == ep_call[1]
              r == ep_result[1]
          IN  /\ ~r.raised
              /\ ex_pc = "returned"
              /\ r.success <=> ThrowingReached(c) = {}
              /\ r.success => r.error = ""
              /\ ~r.success =>
                    /\ r.error \in ThrowingReached(c)
                    /\ \A st \in ThrowingReached(c) : StagePos(r.error) <= StagePos(st)
    /\ \A k \in 1..Len(attempts) :
          ~attempts[k].raised /\ (attempts[k].success <=> attempts[k].error = "")

\* a config that could not be loaded came back as a failed result
C7_Witness ==
    /\ ep_call # None
    /\ ~ep_call[1].pipeline_config_given
    /\ "load_pipeline_config" \in ep_call[1].throws
    /\ ~ep_result[1].success
    /\ ep_result[1].error = "load_pipeline_config"

ConfigErrors == {"load_pipeline_config", "load_source_config"}

\* C8: a configuration error is surfaced at once and never retried:
\* execute_pipeline_with_retry makes no further attempt after an attempt that
\* failed because a config could not be loaded.
C8_ConfigErrorNeverRetried ==
    InRetryCall =>
        /\ \A k \in 1..(Len(attempts) - 1) : attempts[k].error \notin ConfigErrors
        /\ \A k \in 1..Len(sleeps) : attempts[sleeps[k].before - 1].error \notin ConfigErrors

----------------------------------------------------------------------------
\* Properties of SecretsResolver

LastCall == calls[Len(calls)]

\* C9: get_secret for a key whose environment variable is absent raises
\* ValueError when the mapping marks the key required, and returns "" when the
\* mapping marks it optional; in the optional case the cache is unchanged and
\* the key is not cached.
C9_AbsentSecret ==
    /\ \A n \in 1..Len(calls) :
          LET call == calls[n] IN
          (call.env = None /\ secrets_config.secrets[call.key] # None) =>
              IF secrets_config.secrets[call.key][1].required
              THEN /\ call.outcome = "ValueError"
                   /\ call.message = "Required secret not found in environment variables"
              ELSE /\ call.outcome = "return"
                   /\ call.value = ""
    /\ (/\ calls # <<>>
        /\ LastCall.env = None
        /\ secrets_config.secrets[LastCall.key] # None
        /\ ~secrets_config.secrets[LastCall.key][1].required)
          => (cache = LastCall.cache_before /\ cache[LastCall.key] = None)

\* an optional key was asked for while its variable was absent and "" came back
C9_Witness ==
    /\ calls # <<>>
    /\ LastCall.env = None
    /\ secrets_config.secrets[LastCall.key] # None
    /\ ~secrets_config.secrets[LastCall.key][1].required
    /\ LastCall.outcome = "return"
    /\ \E k \in SecretKeys : cache[k] # None

TwoCallsSameKey ==
    /\ Len(calls) = 2
    /\ calls[1].key = calls[2].key
    /\ calls[1].outcome = "return"
    /\ calls[2].outcome = "return"

\* C10 as stated: for every key, two successive get_secret calls that both
\* return yield the identical value and the second call does not read the
\* environment.
C10_IdempotentForEveryKey ==
    TwoCallsSameKey => (calls[2].value = calls[1].value /\ ~calls[2].read_env)

\* C10 amended: when the first of two successive get_secret calls for a key
\* returns a value taken from the cache or from a set environment variable,
\* the second call returns the identical value as a cache hit and does not
\* read the environment; when the first call returns "" because the key is
\* optional, not cached and its variable absent, nothing is cached and the
\* second call reads the environment again.
C10_IdempotentOnceCached ==
    TwoCallsSameKey =>
        IF ~calls[1].read_env \/ calls[1].env # None
        THEN /\ calls[2].value = calls[1].value
             /\ ~calls[2].read_env
             /\ calls[2].cache_before[calls[2].key] = Some(calls[1].value)
             /\ cache[calls[2].key] = Some(calls[1].value)
        ELSE /\ calls[1].value = ""
             /\ calls[1].cache_before[calls[1].key] = None
             /\ calls[2].cache_before[calls[2].key] = None
             /\ calls[2].read_env

\* the variable was overwritten between two calls and the cached value came back
C10_Witness ==
    /\ TwoCallsSameKey
    /\ calls[1].env # None
    /\ calls[2].env # calls[1].env
    /\ calls[2].value = calls[1].value
    /\ ~calls[2].read_env

\* the value satisfies the pattern of the key; a key without a pattern accepts
\* every value
MatchesPattern(k, value) ==
    secrets_config.validation.patterns[k] # None =>
        ReMatch(secrets_config.validation.patterns[k][1], value)

\* C11: a value found in the environment is returned and cached only if it
\* matches the regular expression registered for the key (a key without a
\* pattern accepts every value); a value that does not match makes get_secret
\* raise ValueError and is not cached, so every cache entry satisfies the
\* pattern of its key.
C11_PatternGuardsCache ==
    /\ \A k \in SecretKeys : cache[k] # None => MatchesPattern(k, cache[k][1])
    /\ \A n \in 1..Len(calls) :
          LET call == calls[n] IN
          (call.read_env /\ call.env # None) =>
              IF MatchesPattern(call.key, call.env[1])
              THEN call.outcome = "return" /\ call.value = call.env[1]
              ELSE /\ call.outcome = "ValueError"
                   /\ call.message = "does not match required pattern"
    /\ (calls # <<>> /\ LastCall.read_env /\ LastCall.env # None) =>
          IF MatchesPattern(LastCall.key, LastCall.env[1])
          THEN cache = CacheStore(LastCall.cache_before, LastCall.key, LastCall.env[1])
          ELSE cache = LastCall.cache_before /\ cache[LastCall.key] = None

\* a value that fails its pattern was rejected while the other key, which has a
\* pattern too, is cached
C11_Witness ==
    /\ calls # <<>>
    /\ LastCall.env # None
    /\ LastCall.outcome = "ValueError"
    /\ LastCall.message = "does not match required pattern"
    /\ cache[LastCall.key] = None
    /\ \E k \in SecretKeys :
          cache[k] # None /\ secrets_config.validation.patterns[k] # None

\* the variable of the key is set and its value satisfies the pattern of the key
Available(env, k) == env[k] # None /\ MatchesPattern(k, env[k][1])

Unavailable(env) ==
    {k \in Range(secrets_config.validation.required_secrets) : ~Available(env, k)}

\* C12: validate_required_secrets raises ValueError if and only if at least one
\* key of validation.required_secrets is not available (its variable is absent
\* or its value fails the pattern of the key), and the error names every such
\* key; when all of them are available it returns without raising.
C12_RaisesIffSomeKeyUnavailable ==
    validated # None =>
        LET v == validated[1] IN
        /\ v.outcome = "ValueError" <=> Unavailable(v.env) # {}
        /\ v.outcome = "ValueError" => Range(v.missing_secrets) = Unavailable(v.env)

----------------------------------------------------------------------------
\* Properties of resolve_dict

\* X for a key X_secret_key
DropSuffix(key) == SubSeq(key, 1, Len(key) - 1)

\* a field that names a secret: a key ending in _secret_key with a str value
IsSecretField(e) == EndsWith(e.key, SecretKeySuffix) /\ IsStr(e.value)

\* the secret a fresh resolver finds for a name when resolution succeeds
SecretOf(name) == IF environ[name] # None THEN environ[name][1] ELSE ""

RECURSIVE FieldsResolved(_, _)

\* value w is value v with the fields of every dictionary in it resolved
Carried(v, w) ==
    IF IsDict(v)
    THEN IsDict(w) /\ FieldsResolved(v.dict, w.dict)
    ELSE IF IsList(v)
    THEN /\ IsList(w)
         /\ Len(w.list) = Len(v.list)
         /\ \A i \in 1..Len(v.list) :
               IF IsDict(v.list[i])
               THEN IsDict(w.list[i]) /\ FieldsResolved(v.list[i].dict, w.list[i].dict)
               ELSE w.list[i] = v.list[i]
    ELSE w = v

\* dictionary r is dictionary d with every secret field X_secret_key replaced by
\* a field X holding the secret, and every other field carried over (a field
\* whose name a secret field of the same dictionary resolves to is left out of
\* the comparison, as the two cannot both be kept)
FieldsResolved(d, r) ==
    \A n \in 1..Len(d) :
        LET e == d[n] IN
        IF IsSecretField(e)
        THEN /\ HasKey(r, DropSuffix(e.key))
             /\ DictGet(r, DropSuffix(e.key)) = Str(SecretOf(e.value.str))
             /\ ~HasKey(r, e.key)
        ELSE (\A j \in 1..Len(d) : IsSecretField(d[j]) => DropSuffix(d[j].key) # e.key)
                 => (HasKey(r, e.key) /\ Carried(e.value, DictGet(r, e.key)))

\* C13: the structure resolve_dict returns has, at every nesting depth of
\* dictionaries and lists of dictionaries, every field named X_secret_key
\* replaced by a field X holding the resolved secret (the suffixed key is no
\* longer present), and every non-suffixed key and every scalar list element
\* carried over unchanged.  The claim is read for suffixed fields that hold the
\* name of a secret.
C13_SecretFieldsRenamedAndResolved ==
    rs_pc = "returned" => FieldsResolved(data, resolved[1])

----------------------------------------------------------------------------
\* Properties of ConfigValidator

\* the call of fn has run
Validated(fn) == val_call.fn = fn /\ val_result # None

\* the number of errors of a list with the given rule and subject
CountErrors(errors, rule, subject) ==
    Cardinality({n \in 1..Len(errors) : errors[n] = Error(rule, subject)})

\* the number of resources of a list that satisfy a condition, given as the set
\* of the resources that do
CountResources(resources, S) == Cardinality({n \in 1..Len(resources) : resources[n] \in S})

\* the number of parts of a cron string: the maximal runs of non-blank characters
CronPartCount(cron) ==
    Cardinality({i \in 1..Len(cron) : cron[i] # " " /\ (i = 1 \/ cron[i - 1] = " ")})

\* resources that break the merge rule or the incremental rule
MergeWithoutKey == {r \in ResourceConfigs : r.write_disposition = "merge" /\ r.primary_key = <<>>}
EnabledWithoutCursor ==
    {r \in ResourceConfigs :
        r.incremental # None /\ r.incremental[1].enabled /\ r.incremental[1].cursor_field = ""}

\* the number of rules a source, a destination or a pipeline violates
SourceViolations(s) ==
    (IF s.resources = <<>> THEN 1 ELSE 0)
    + CountResources(s.resources, MergeWithoutKey)
    + CountResources(s.resources, EnabledWithoutCursor)

SecretKeyFieldNames ==
    {"server_hostname_secret_key", "http_path_secret_key", "access_token_secret_key"}

DestinationViolations(d) ==
    (IF d.type = "databricks"
     THEN Cardinality({f \in SecretKeyFieldNames : d.connection[f] \in {None, Some("")}})
     ELSE 0)
    + (IF d.settings.vacuum_after_write
          /\ d.settings.vacuum_retention_hours < MinVacuumRetentionHours
       THEN 1 ELSE 0)

\* the names a pipeline requests that a source does not define
Undefined(p, s) ==
    {n \in 1..Len(p.source.resources) :
        \A j \in 1..Len(s.resources) : s.resources[j].name # p.source.resources[n]}

PipelineViolations(call) ==
    LET p == call.pipeline[1] IN
    (IF p.schedule.enabled /\ CronPartCount(p.schedule.cron) # CronFields THEN 1 ELSE 0)
    + (IF p.sla_hours < MinSlaHours THEN 1 ELSE 0)
    + (IF call.source # None THEN Cardinality(Undefined(p, call.source[1])) ELSE 0)
    + (IF call.source # None /\ call.env.pipeline # call.env.source THEN 1 ELSE 0)
    + (IF call.destination # None /\ call.env.pipeline # call.env.destination THEN 1 ELSE 0)

\* C14: a single validator call reports every independently violated rule: the
\* returned list (for validate_all each of the three lists) holds one error for
\* each violated rule, and the validator neither stops at the first violation
\* nor raises an exception for an expected violation.
C14_EveryViolationReported ==
    val_result # None =>
        LET r == val_result[1] IN
        /\ ~r.raised
        /\ val_call.fn = "validate_source_config" =>
               Len(r.errors) = SourceViolations(val_call.source[1])
        /\ val_call.fn = "validate_destination_config" =>
               Len(r.errors) = DestinationViolations(val_call.destination[1])
        /\ val_call.fn = "validate_pipeline_config" =>
               Len(r.errors) = PipelineViolations(val_call)
        /\ val_call.fn = "validate_all" =>
               /\ Len(r.all.source) = SourceViolations(val_call.source[1])
               /\ Len(r.all.destination) = DestinationViolations(val_call.destination[1])
               /\ Len(r.all.pipeline) = PipelineViolations(val_call)

\* C15: validate_pipeline_config called with a source config returns a 'not
\* defined in source' error for a requested resource name if and only if that
\* name is not the name of a resource of the source; with source resources
\* [users] and requested [users, events] the result is exactly one error,
\* mentioning events.
C15_UndefinedResourceReported ==
    (Validated("validate_pipeline_config") /\ val_call.source # None) =>
        LET r == val_result[1]
            p == val_call.pipeline[1]
            s == val_call.source[1]
        IN
        /\ ~r.raised
        /\ \A name \in ResourceNames :
              CountErrors(r.errors, "requested in pipeline but not defined in source", name)
                  = Cardinality({n \in Undefined(p, s) : p.source.resources[n] = name})

\* C16: validate_pipeline_config returns exactly one 'Environment mismatch' error
\* naming both environment values when the environment of the pipeline differs
\* from that of the supplied source (or destination), and no such error when
\* they are equal; the error is an element of the returned list and nothing is
\* raised.
C16_EnvironmentMismatchReported ==
    (/\ Validated("validate_pipeline_config")
     /\ (val_call.source # None \/ val_call.destination # None)) =>
        LET r == val_result[1] IN
        /\ ~r.raised
        /\ val_call.source # None =>
               CountErrors(r.errors, "Environment mismatch", "source")
                   = IF val_call.env.pipeline # val_call.env.source THEN 1 ELSE 0
        /\ val_call.destination # None =>
               CountErrors(r.errors, "Environment mismatch", "destination")
                   = IF val_call.env.pipeline # val_call.env.destination THEN 1 ELSE 0

\* the resources of the validated source that have the given name
Named(name) == {r \in ResourceConfigs : r.name = name}

\* C17: for every resource of a source whose write_disposition is merge,
\* validate_source_config reports the 'merge but no primary_key' error for that
\* resource if and only if its primary_key list is empty; a resource with any
\* other write disposition never gets this error.
C17_MergeNeedsPrimaryKey ==
    Validated("validate_source_config") =>
        /\ ~val_result[1].raised
        /\ \A name \in ResourceNames :
              CountErrors(val_result[1].errors,
                          "write_disposition is 'merge' but no primary_key defined", name)
                  = CountResources(val_call.source[1].resources, MergeWithoutKey \cap Named(name))

\* a merge resource without primary key was reported, next to a resource without
\* primary key that is not merged
C17_Witness ==
    /\ Validated("validate_source_config")
    /\ LET resources == val_call.source[1].resources IN
        /\ Len(resources) = 2
        /\ resources[1].write_disposition = "merge" /\ resources[1].primary_key = <<>>
        /\ resources[2].write_disposition # "merge" /\ resources[2].primary_key = <<>>
        /\ resources[1].name # resources[2].name
    /\ \E n \in 1..Len(val_result[1].errors) :
          val_result[1].errors[n].rule = "write_disposition is 'merge' but no primary_key defined"

\* C18: for every resource of a source whose incremental config is present and
\* enabled, validate_source_config reports the 'incremental enabled but
\* cursor_field not set' error for that resource if and only if cursor_field is
\* empty; a resource without incremental config or with it disabled never gets
\* this error.
C18_IncrementalNeedsCursorField ==
    Validated("validate_source_config") =>
        /\ ~val_result[1].raised
        /\ \A name \in ResourceNames :
              CountErrors(val_result[1].errors,
                          "incremental enabled but cursor_field not set", name)
                  = CountResources(val_call.source[1].resources,
                                   EnabledWithoutCursor \cap Named(name))

\* an enabled incremental config without cursor field was reported next to a
\* disabled one without cursor field
C18_Witness ==
    /\ Validated("validate_source_config")
    /\ LET resources == val_call.source[1].resources IN
        /\ Len(resources) = 2
        /\ resources[1].incremental = Some(IncrementalConfig(FALSE, ""))
        /\ resources[2].incremental = Some(IncrementalConfig(TRUE, ""))
        /\ resources[1].name # resources[2].name
    /\ \E n \in 1..Len(val_result[1].errors) :
          val_result[1].errors[n] =
              Error("incremental enabled but cursor_field not set",
                    val_call.source[1].resources[2].name)

\* C19: for a destination of type databricks, validate_destination_config
\* reports one 'requires <field>' error for each of server_hostname_secret_key,
\* http_path_secret_key and access_token_secret_key that is empty or unset, and
\* none when all three are non-empty; for every other destination type these
\* checks never produce an error.
C19_DatabricksNeedsSecretKeys ==
    Validated("validate_destination_config") =>
        LET d == val_call.destination[1] IN
        /\ ~val_result[1].raised
        /\ \A f \in SecretKeyFieldNames :
              CountErrors(val_result[1].errors, "Databricks destination requires", f)
                  = IF d.type = "databricks" /\ d.connection[f] \in {None, Some("")}
                    THEN 1 ELSE 0

\* a databricks destination with one field unset and one empty got two errors
C19_Witness ==
    /\ Validated("validate_destination_config")
    /\ val_call.destination[1].type = "databricks"
    /\ val_call.destination[1].connection.server_hostname_secret_key = None
    /\ val_call.destination[1].connection.http_path_secret_key # None
    /\ val_call.destination[1].connection.http_path_secret_key # Some("")
    /\ val_call.destination[1].connection.access_token_secret_key = Some("")
    /\ CountErrors(val_result[1].errors, "Databricks destination requires",
                   "server_hostname_secret_key") = 1
    /\ CountErrors(val_result[1].errors, "Databricks destination requires",
                   "access_token_secret_key") = 1

\* C20: validate_destination_config reports exactly one vacuum-retention error
\* if and only if vacuum_after_write is true and vacuum_retention_hours is below
\* 168; when vacuum_after_write is false no retention error is reported whatever
\* the hours value.
C20_VacuumRetentionFloor ==
    Validated("validate_destination_config") =>
        LET settings == val_call.destination[1].settings IN
        /\ ~val_result[1].raised
        /\ CountErrors(val_result[1].errors, "vacuum_retention_hours must be at least 168", "")
              = IF /\ settings.vacuum_after_write
                   /\ settings.vacuum_retention_hours < MinVacuumRetentionHours
                THEN 1 ELSE 0

\* vacuum after write with a retention one hour below the floor was reported
C20_Witness ==
    /\ Validated("validate_destination_config")
    /\ val_call.destination[1].settings.vacuum_after_write
    /\ val_call.destination[1].settings.vacuum_retention_hours = MinVacuumRetentionHours - 1
    /\ CountErrors(val_result[1].errors, "vacuum_retention_hours must be at least 168", "") = 1

\* C21: validate_pipeline_config reports exactly one 'Invalid cron expression'
\* error if and only if the schedule is enabled and the cron string does not
\* have exactly five whitespace-separated fields; when the schedule is disabled
\* the cron string is never checked.
C21_CronShapeReported ==
    Validated("validate_pipeline_config") =>
        LET schedule == val_call.pipeline[1].schedule IN
        /\ ~val_result[1].raised
        /\ CountErrors(val_result[1].errors, "Invalid cron expression", "")
              = IF schedule.enabled /\ CronPartCount(schedule.cron) # CronFields
                THEN 1 ELSE 0

\* the value a caller's optional argument stands for: its own when provided
ProvidedOr(arg, configured) == IF arg = None THEN configured ELSE arg[1]

\* C24: execute_pipeline_with_retry uses the caller's max_retries and
\* retry_delay whenever they are provided, including the value 0, and falls
\* back to execution.retries / execution.retry_delay of the pipeline config
\* only when an argument is not provided; max_retries=0 gives exactly one attempt.
C24_CallerArgumentsWin ==
    (InRetryCall /\ ex_pc # "raised") =>
        /\ max_retries = ProvidedOr(retry_call[1].max_retries, retry_call[1].execution.retries)
        /\ retry_delay = ProvidedOr(retry_call[1].retry_delay,
                                    retry_call[1].execution.retry_delay)
        /\ (retry_call[1].max_retries = Some(0) /\ ex_pc = "returned") => Len(attempts) = 1

Unmapped(k) == secrets_config.secrets[k] = None

\* C30 as stated: get_secret raises 'not defined in secrets mapping' for a key
\* that is missing from the mapping only when the environment variable of the
\* key is absent; when the variable is present, get_secret returns and caches
\* its value although the key is not in the mapping.
C30_UnmappedKeyPresent ==
    /\ \A n \in 1..Len(calls) :
          LET call == calls[n] IN
          /\ call.message = "not defined in secrets mapping" =>
                Unmapped(call.key) /\ call.env = None
          /\ (Unmapped(call.key) /\ call.env # None) =>
                call.outcome = "return" /\ call.value = call.env[1]
    /\ (calls # <<>> /\ Unmapped(LastCall.key) /\ LastCall.env # None) =>
          cache[LastCall.key] = LastCall.env

\* C30, amended: the 'not defined in secrets mapping' error is raised only for
\* a key missing from the mapping whose variable is absent and that is not
\* cached; when the variable is present and the key is not cached, get_secret
\* returns and caches the value if it matches the pattern registered for the
\* key (no pattern: every value), and raises the pattern error caching
\* nothing if it does not; a cached key returns its cached value.
C30_UnmappedKeyPresentAndMatching ==
    /\ \A n \in 1..Len(calls) :
          LET call == calls[n] IN
          /\ call.message = "not defined in secrets mapping" =>
                /\ Unmapped(call.key)
                /\ call.env = None
                /\ call.cache_before[call.key] = None
                /\ call.outcome = "ValueError"
          /\ (Unmapped(call.key) /\ call.env # None /\ call.cache_before[call.key] = None) =>
                IF MatchesPattern(call.key, call.env[1])
                THEN call.outcome = "return" /\ call.value = call.env[1]
                ELSE /\ call.outcome = "ValueError"
                     /\ call.message = "does not match required pattern"
          /\ (Unmapped(call.key) /\ call.cache_before[call.key] # None) =>
                call.outcome = "return" /\ call.value = call.cache_before[call.key][1]
    /\ (calls # <<>> /\ Unmapped(LastCall.key) /\ LastCall.env # None
           /\ LastCall.cache_before[LastCall.key] = None) =>
          IF MatchesPattern(LastCall.key, LastCall.env[1])
          THEN cache[LastCall.key] = LastCall.env
          ELSE cache[LastCall.key] = None

\* a key that is not in the mapping was asked for with its variable set, and
\* the value came back and is cached
C30_Witness ==
    /\ calls # <<>>
    /\ Unmapped(LastCall.key)
    /\ LastCall.env # None
    /\ LastCall.cache_before[LastCall.key] = None
    /\ LastCall.outcome = "return"
    /\ LastCall.value = LastCall.env[1]
    /\ cache[LastCall.key] = LastCall.env

----------------------------------------------------------------------------
\* Properties of the dag scheduling loop

\* a step of the while loop: from its head it raises or submits a batch that
\* is not empty, and every future it collects is removed from pending, so the
\* loop is back at its head only with a shorter pending
DagPassShrinks ==
    /\ (pc = "dag" /\ pending # <<>> /\ pc' # pc) =>
          \/ pc' = "raised"
          \/ pc' = "dag_wait" /\ futures' # <<>> /\ pending' = pending
    /\ (pc = "dag_wait" /\ (pc' # pc \/ futures' # futures)) =>
          \/ Len(pending') = Len(pending) - 1
    /\ (pc = "dag_wait" /\ pc' = "dag_wait") => futures' # <<>>

Terminated == pc \in {"returned", "raised"}

\* C26: in dag mode every pass of the scheduling loop either raises or removes
\* at least one step from pending, so execute_job_flow terminates for every job,
\* provided every submitted task eventually completes or fails.
C26_DagLoopTerminates == [][DagPassShrinks]_vars /\ <>Terminated

\* a dag job returned after two passes of the loop, the second step waiting
\* for the first
C26_Witness ==
    /\ Mode = "dag"
    /\ pc = "returned"
    /\ Pipelines[2].depends_on = {Pipelines[1].name}
    /\ collected = <<1, 2>>
    /\ pending = <<>>

EnabledSteps == {i \in StepIds : Pipelines[i].enabled}
EnabledNames == {Pipelines[i].name : i \in EnabledSteps}

\* the enabled steps depend on enabled steps only, and on no cycle of them
EnabledSelfContained == \A i \in EnabledSteps : Pipelines[i].depends_on \subseteq EnabledNames
EnabledAcyclic ==
    \A i \in EnabledSteps : Pipelines[i].name \notin DepClosure(Pipelines[i].depends_on, NumSteps)

\* C27: in dag mode a disabled step is never dispatched, and a job which
\* contains a disabled step still returns normally when its enabled steps have
\* an acyclic, self-contained dependency graph and all of them succeed.
C27_DisabledStepSkipped ==
    Mode = "dag" =>
        /\ \A i \in StepIds : task[i] # "none" => Pipelines[i].enabled
        /\ ( /\ EnabledSteps # StepIds
             /\ EnabledSelfContained
             /\ EnabledAcyclic
             /\ \A i \in StepIds : task[i] # "failed" ) => pc # "raised"

Succeeded == {i \in StepIds : task[i] = "ok"}

\* C28: whenever execute_job_flow returns normally, in any mode, the status is
\* 'success' and the results list holds exactly one entry for each step whose
\* task completed successfully, in the order the steps were collected, and no
\* entry for a failed or a disabled step; failures that were tolerated do not
\* change the status.
C28_ReturnValue ==
    pc = "returned" =>
        /\ ReturnValue.status = "success"
        /\ ReturnValue.results = FilterSeq(collected, Succeeded)
        /\ \A i \in Succeeded : Cardinality({k \in 1..Len(results) : results[k] = i}) = 1
        /\ \A k \in 1..Len(results) :
              results[k] \in Succeeded /\ Pipelines[results[k]].enabled

\* a job returned after a failure it tolerated and a step that succeeded
C28_Witness ==
    /\ pc = "returned"
    /\ \E i \in StepIds : task[i] = "failed"
    /\ results # <<>>

----------------------------------------------------------------------------
\* Properties of the bulk operations of ConfigLoader

\* the positions of the files that load
Loadable == {n \in 1..Len(ld_files) : ld_files[n].content.raises = ""}

\* C22: each bulk load operation (load_all_sources, load_all_destinations,
\* load_all_pipelines) skips a file whose loading or schema validation fails and
\* still returns every config of the other files of the directory; one bad file
\* never makes the bulk operation raise.
C22_BadFileSkipped ==
    /\ ld_pc # "raised"
    /\ ld_pc = "returned" =>
          \A n \in Loadable : HasKey(ld_result, ld_files[n].content.name)

\* the last file of the listing that loads and declares the name
LastDeclaring(name) ==
    CHOOSE n \in Loadable :
        /\ ld_files[n].content.name = name
        /\ \A j \in Loadable : ld_files[j].content.name = name => j <= n

\* C23: the mapping a bulk load operation returns is keyed by the declared name
\* of each config, not by its filename: every file that loads contributes the
\* entry name -> config, and the mapping has at most one entry per declared
\* name (a later file with the same declared name replaces the earlier one).
C23_KeyedByDeclaredName ==
    ld_pc = "returned" =>
        /\ {ld_result[n].key : n \in 1..Len(ld_result)}
              = {ld_files[n].content.name : n \in Loadable}
        /\ \A i \in 1..Len(ld_result), j \in 1..Len(ld_result) :
              ld_result[i].key = ld_result[j].key => i = j
        /\ \A n \in 1..Len(ld_result) :
              ld_result[n].value = Str(ld_files[LastDeclaring(ld_result[n].key)].filename)

\* two files declaring the same name were loaded and the mapping holds the later one
C23_Witness ==
    /\ ld_pc = "returned"
    /\ Len(ld_files) = 2
    /\ Loadable = {1, 2}
    /\ ld_files[1].content.name = ld_files[2].content.name
    /\ ld_result = <<Entry(ld_files[1].content.name, Str(ld_files[2].filename))>>

----------------------------------------------------------------------------
\* Properties of all_pipelines_flow

\* the last position of pipeline_names that holds the name
LastRequest(name) ==
    CHOOSE k \in 1..Len(fl_names) :
        fl_names[k] = name /\ \A j \in 1..Len(fl_names) : fl_names[j] = name => j <= k

\* what holds of submitting and waiting whatever the names are
FlowOrder ==
    /\ fl_pc # "raised"
    /\ fl_waits # <<>> => Len(fl_futures) = Len(fl_names)
    /\ fl_waits = [k \in 1..Len(fl_waits) |-> k]
    /\ \A k \in 1..Len(fl_futures) : fl_futures[k].name = fl_names[k]
    /\ fl_pc = "returned" =>
          {fl_results[n].key : n \in 1..Len(fl_results)}
              = {fl_names[k] : k \in 1..Len(fl_names)}

\* C25 as stated: all_pipelines_flow submits every pipeline before it waits on
\* any result, waits on the futures in submission order, never raises because
\* a pipeline failed, and returns a mapping with an entry for every requested
\* pipeline name whose success field is true exactly for the pipelines whose
\* task completed without an exception.
C25_SuccessOfEveryTask ==
    /\ FlowOrder
    /\ fl_pc = "returned" =>
          \A k \in 1..Len(fl_futures) :
              DictGet(fl_results, fl_names[k]).success
                  <=> fl_futures[k].state = "completed"

\* C25, amended: the same, with the success field of the entry of a name true
\* exactly when the task submitted last for that name completed without an
\* exception (a name may be requested more than once).
C25_SuccessOfLastTask ==
    /\ FlowOrder
    /\ fl_pc = "returned" =>
          \A n \in 1..Len(fl_results) :
              fl_results[n].value.success
                  <=> fl_futures[LastRequest(fl_results[n].key)].state = "completed"

\* two pipelines were requested, the first failed after its retries, the second
\* completed, and the flow returned an entry for each
C25_Witness ==
    /\ fl_pc = "returned"
    /\ Len(fl_names) = 2
    /\ fl_names[1] # fl_names[2]
    /\ fl_futures[1].state = "failed"
    /\ fl_futures[1].runs = TaskRetries + 1
    /\ fl_futures[2].state = "completed"
    /\ ~DictGet(fl_results, fl_names[1]).success
    /\ DictGet(fl_results, fl_names[2]).success

----------------------------------------------------------------------------
\* Properties of load_destination_config

\* the YAML file sets the three *_secret_key fields of a databricks destination
SetsAllSecretKeys ==
    /\ DictGet(dst_data, <<"type">>) = Str("databricks")
    /\ \A n \in 1..3 :
          HasKey(DictGet(dst_data, <<"connection">>).dict, ConnectionSecretFields[n])

\* C29: when a secrets mapping exists, load_destination_config preserves the
\* secret-key fields of a Databricks destination: for a databricks YAML that
\* sets the three *_secret_key fields to names that resolve, the loaded
\* DestinationConfig has the three fields non-empty, and
\* validate_destination_config reports no Databricks error for it.
C29_SecretKeyFieldsPreserved ==
    (dst_resolver /\ SetsAllSecretKeys) =>
        /\ dst_config # None =>
              LET connection == dst_config[1].connection IN
              /\ ~IsEmpty(connection.server_hostname_secret_key)
              /\ ~IsEmpty(connection.http_path_secret_key)
              /\ ~IsEmpty(connection.access_token_secret_key)
        /\ dst_errors # None =>
              \A n \in 1..Len(dst_errors[1].errors) :
                  dst_errors[1].errors[n].rule # "Databricks destination requires"

====
